---- MODULE Spec2Model ----
(***************************************************************************)
(* A model of the webhook pipeline of creem_io (resources/webhooks.ts):    *)
(* signature verification, envelope parsing and the dispatch of an event   *)
(* to the caller's handlers, with handleEvents as an asynchronous          *)
(* function that suspends at each await.                                   *)
(*                                                                         *)
(* Strings that the code inspects unit by unit (secret, signature, payload *)
(* text) are sequences of code units; decoded JSON values are tagged       *)
(* records [t |-> type, v |-> content].                                    *)
(***************************************************************************)
EXTENDS Integers, Sequences, FiniteSets, TLC

(***************************************************************************)
(* Bounds of the model.                                                    *)
(***************************************************************************)
\* Bytes of the digest (SHA-256 has 32; the model scales the digest down).
DigestBytes == 1
\* Largest number of handlers a caller registers in the sequential model.
MaxReg == 2

(***************************************************************************)
(* JavaScript values.                                                      *)
(***************************************************************************)
Undefined == [t |-> "undefined"]
JNull == [t |-> "null"]
JStr(s) == [t |-> "string", v |-> s]
JNum(n) == [t |-> "number", v |-> n]
JObj(f) == [t |-> "object", v |-> f]
JArr(s) == [t |-> "array", v |-> s]

\* typeof x
TypeOf(x) == IF x.t \in {"null", "array"} THEN "object" ELSE x.t

\* A test for undefined and null only, which takes "" for a secret.
Truthy_DefinedOnly(x) == x.t \notin {"undefined", "null"}

\* !x is false exactly for the truthy values: undefined, null, "" (and the empty
\* code-unit sequence), 0 are falsy.
Truthy(x) ==
  CASE x.t = "undefined" -> FALSE
    [] x.t = "null" -> FALSE
    [] x.t = "string" -> x.v # "" /\ <<>> # x.v
    [] x.t = "number" -> x.v # 0
    [] OTHER -> TRUE

\* obj[key] for a named key: undefined when the key is absent (as it is in every
\* array and string).
Get(obj, key) ==
  IF obj.t = "object" /\ key \in DOMAIN obj.v THEN obj.v[key] ELSE Undefined

(***************************************************************************)
(* Signature: generateSignature and verifySignature.                       *)
(***************************************************************************)
\* Buffer.from(string): the UTF-8 encoding of the string's code units (one,
\* two or three bytes; a surrogate on its own is encoded as U+FFFD).
ReplacementChar == 65533
Utf8(c) ==
  IF c < 128 THEN <<c>>
  ELSE IF c < 2048 THEN <<192 + (c \div 64), 128 + (c % 64)>>
  ELSE IF c \in 55296..57343 THEN <<239, 191, 189>>
  ELSE <<224 + (c \div 4096), 128 + ((c \div 64) % 64), 128 + (c % 64)>>

RECURSIVE BufferFrom(_)
BufferFrom(str) ==
  IF str = <<>> THEN <<>> ELSE Utf8(Head(str)) \o BufferFrom(Tail(str))

\* buffer.toString("utf8"): the code units of the text the bytes encode; a byte
\* that begins no well-formed sequence of one, two or three bytes decodes to
\* U+FFFD. (Sequences of four bytes are in no input of the model.)
IsContinuation(b) == b \in 128..191

RECURSIVE Utf8Decode(_)
Utf8Decode(bytes) ==
  IF bytes = <<>> THEN <<>>
  ELSE LET b == Head(bytes)
           n == Len(bytes)
       IN  IF b < 128 THEN <<b>> \o Utf8Decode(Tail(bytes))
           ELSE IF b \in 194..223 /\ n >= 2 /\ IsContinuation(bytes[2])
             THEN <<(b - 192) * 64 + (bytes[2] - 128)>> \o Utf8Decode(SubSeq(bytes, 3, n))
           ELSE IF /\ b \in 224..239 /\ n >= 3
                   /\ IsContinuation(bytes[2]) /\ IsContinuation(bytes[3])
                   /\ (b = 224 => bytes[2] >= 160)
                   /\ (b = 237 => bytes[2] <= 159)
             THEN <<(b - 224) * 4096 + (bytes[2] - 128) * 64 + (bytes[3] - 128)>>
                    \o Utf8Decode(SubSeq(bytes, 4, n))
           ELSE <<ReplacementChar>> \o Utf8Decode(Tail(bytes))

\* Buffer.from(x) raises a TypeError for a value that is no string.
BufferFromRaises(x) == x.t # "string"

HashMod == 256 ^ DigestBytes

RECURSIVE HashBytes(_, _)
HashBytes(h, bytes) ==
  IF bytes = <<>> THEN h
  ELSE HashBytes((h * 33 + Head(bytes) + 1) % HashMod, Tail(bytes))

\* crypto.createHmac("sha256", secret).update(payload): a keyed digest of the
\* payload's bytes, scaled down to DigestBytes bytes.
Hmac(key, msg) == HashBytes(HashBytes(HashBytes(5381 % HashMod, key), <<0>>), msg)

\* .digest("hex"): lowercase hex, two digits per byte.
HexDigit(n) == IF n < 10 THEN 48 + n ELSE 87 + n

RECURSIVE Hex(_, _)
Hex(n, len) ==
  IF len = 0 THEN <<>> ELSE Append(Hex(n \div 16, len - 1), HexDigit(n % 16))

generateSignature(payload, secret) ==
  Hex(Hmac(BufferFrom(secret), BufferFrom(payload)), 2 * DigestBytes)

\* A comparison that stops one byte short.
timingSafeEqual_OffByOne(a, b) == \A i \in 1..(Len(a) - 1) : a[i] = b[i]

\* crypto.timingSafeEqual on two buffers of equal length.
timingSafeEqual(a, b) == \A i \in 1..Len(a) : a[i] = b[i]

\* Letters a-f in capitals and back; a string without its surrounding white space.
UpperHex(str) == [i \in 1..Len(str) |-> IF str[i] \in 97..102 THEN str[i] - 32 ELSE str[i]]
LowerHex(str) == [i \in 1..Len(str) |-> IF str[i] \in 65..70 THEN str[i] + 32 ELSE str[i]]
WhiteSpace == {9, 10, 13, 32}
RECURSIVE Trim(_)
Trim(str) ==
  IF str = <<>> THEN <<>>
  ELSE IF Head(str) \in WhiteSpace THEN Trim(Tail(str))
  ELSE IF str[Len(str)] \in WhiteSpace THEN Trim(SubSeq(str, 1, Len(str) - 1))
  ELSE str

\* A verification that trims the header and ignores the case of its hex digits.
verifySignature_Lenient(payload, signature, secret) ==
  IF BufferFromRaises(signature) THEN "TypeError"
  ELSE LET expectedSignature == generateSignature(payload, secret)
           signatureBuffer == BufferFrom(LowerHex(Trim(signature.v)))
           expectedBuffer == BufferFrom(expectedSignature)
       IN  IF Len(signatureBuffer) # Len(expectedBuffer) THEN "false"
           ELSE IF timingSafeEqual(signatureBuffer, expectedBuffer) THEN "true"
           ELSE "false"

\* "true" or "false", or "TypeError" when Buffer.from(signature) raises.
verifySignature(payload, signature, secret) ==
  IF BufferFromRaises(signature) THEN "TypeError"
  ELSE LET expectedSignature == generateSignature(payload, secret)
           signatureBuffer == BufferFrom(signature.v)
           expectedBuffer == BufferFrom(expectedSignature)
       IN  IF Len(signatureBuffer) # Len(expectedBuffer) THEN "false"
           ELSE IF timingSafeEqual(signatureBuffer, expectedBuffer) THEN "true"
           ELSE "false"

(***************************************************************************)
(* Parsing: isWebhookEntity, isWebhookEvent, parseWebhookEvent.            *)
(***************************************************************************)
EntityTypes ==
  {"checkout", "customer", "order", "product", "subscription", "refund",
   "dispute", "transaction"}

\* isWebhookEntity without the list of entity types: any string will do.
isWebhookEntity_AnyType(obj) ==
  IF ~Truthy(obj) \/ TypeOf(obj) # "object" THEN FALSE
  ELSE TypeOf(Get(obj, "object")) = "string"

isWebhookEntity(obj) ==
  IF ~Truthy(obj) \/ TypeOf(obj) # "object" THEN FALSE
  ELSE /\ TypeOf(Get(obj, "object")) = "string"
       /\ Get(obj, "object").v \in EntityTypes

\* isWebhookEvent without its check of the embedded object.
isWebhookEvent_NoEntityCheck(obj) ==
  IF ~Truthy(obj) \/ TypeOf(obj) # "object" THEN FALSE
  ELSE /\ TypeOf(Get(obj, "eventType")) = "string"
       /\ TypeOf(Get(obj, "id")) = "string"
       /\ TypeOf(Get(obj, "created_at")) = "number"
       /\ "object" \in DOMAIN obj.v

isWebhookEvent(obj) ==
  IF ~Truthy(obj) \/ TypeOf(obj) # "object" THEN FALSE
  ELSE /\ TypeOf(Get(obj, "eventType")) = "string"
       /\ TypeOf(Get(obj, "id")) = "string"
       /\ TypeOf(Get(obj, "created_at")) = "number"
       /\ "object" \in DOMAIN obj.v
       /\ isWebhookEntity(Get(obj, "object"))

\* JSON.parse(payload): a SyntaxError for text that is not JSON, else the value.
JSONparseRaises(p) == ~p.wellFormed
JSONparse(p) == p.value

(***************************************************************************)
(* Normalization: toCamelCase of utils, as section 4.3 of the              *)
(* specification states it. A key is a string; the conversion works on its *)
(* code units, which KeyUnits spells out for the keys of the model.        *)
(***************************************************************************)
KeyUnits ==
  "object" :> <<111, 98, 106, 101, 99, 116>> @@
  "id" :> <<105, 100>> @@
  "status" :> <<115, 116, 97, 116, 117, 115>> @@
  "reason" :> <<114, 101, 97, 115, 111, 110>> @@
  "customer" :> <<99, 117, 115, 116, 111, 109, 101, 114>> @@
  "items" :> <<105, 116, 101, 109, 115>> @@
  "message" :> <<109, 101, 115, 115, 97, 103, 101>> @@
  "created_at" :> <<99, 114, 101, 97, 116, 101, 100, 95, 97, 116>> @@
  "createdAt" :> <<99, 114, 101, 97, 116, 101, 100, 65, 116>> @@
  "product_id" :> <<112, 114, 111, 100, 117, 99, 116, 95, 105, 100>> @@
  "productId" :> <<112, 114, 111, 100, 117, 99, 116, 73, 100>> @@
  "webhook_id" :> <<119, 101, 98, 104, 111, 111, 107, 95, 105, 100>> @@
  "webhookId" :> <<119, 101, 98, 104, 111, 111, 107, 73, 100>> @@
  "webhook_event_type" :>
    <<119, 101, 98, 104, 111, 111, 107, 95, 101, 118, 101, 110, 116, 95, 116,
      121, 112, 101>> @@
  "webhookEventType" :>
    <<119, 101, 98, 104, 111, 111, 107, 69, 118, 101, 110, 116, 84, 121, 112,
      101>> @@
  "webhook_created_at" :>
    <<119, 101, 98, 104, 111, 111, 107, 95, 99, 114, 101, 97, 116, 101, 100,
      95, 97, 116>> @@
  "webhookCreatedAt" :>
    <<119, 101, 98, 104, 111, 111, 107, 67, 114, 101, 97, 116, 101, 100, 65,
      116>>

KeyOf(units) == CHOOSE k \in DOMAIN KeyUnits : KeyUnits[k] = units

IsLower(c) == c \in 97..122
IsDigit(c) == c \in 48..57
Underscore == 95

\* The wire convention: lowercase words joined by single underscores.
IsWireKey(u) ==
  /\ u # <<>>
  /\ IsLower(u[1])
  /\ u[Len(u)] # Underscore
  /\ \A i \in 1..Len(u) : IsLower(u[i]) \/ IsDigit(u[i]) \/ u[i] = Underscore
  /\ \A i \in 1..(Len(u) - 1) : ~(u[i] = Underscore /\ u[i + 1] = Underscore)

\* The separators dropped and the first letter of every later word in capitals.
RECURSIVE CamelUnits(_)
CamelUnits(u) ==
  IF u = <<>> THEN <<>>
  ELSE IF u[1] = Underscore
    THEN <<IF IsLower(u[2]) THEN u[2] - 32 ELSE u[2]>> \o CamelUnits(SubSeq(u, 3, Len(u)))
  ELSE <<u[1]>> \o CamelUnits(Tail(u))

CamelKey(k) == IF IsWireKey(KeyUnits[k]) THEN KeyOf(CamelUnits(KeyUnits[k])) ELSE k

\* Keys converted at every depth, through mappings and arrays; scalars as they
\* are. Where two keys of a mapping convert to the same key, the output holds
\* that key once, with the value of one of the two.
RECURSIVE toCamelCase(_)
toCamelCase(value) ==
  IF value.t = "array"
    THEN JArr([i \in 1..Len(value.v) |-> toCamelCase(value.v[i])])
  ELSE IF value.t = "object"
    THEN JObj([k2 \in {CamelKey(k) : k \in DOMAIN value.v} |->
                 toCamelCase(value.v[CHOOSE k \in DOMAIN value.v : CamelKey(k) = k2])])
  ELSE value

\* A normalizer that returns the converted entity under a field of a new object.
normalizeWebhookData_Wrapped(data) == JObj([object |-> toCamelCase(data)])

normalizeWebhookData(data) == toCamelCase(data)

(***************************************************************************)
(* Errors.                                                                 *)
(***************************************************************************)
NoError == [name |-> "none", message |-> ""]
ConfigError ==
  [name |-> "Error",
   message |-> "Webhook secret not configured. Pass webhookSecret to createCreem."]
SignatureError == [name |-> "Error", message |-> "Invalid webhook signature"]
StructureError == [name |-> "Error", message |-> "Invalid webhook event structure"]
JsonSyntaxError == [name |-> "SyntaxError", message |-> "JSON.parse"]
ArgTypeError == [name |-> "TypeError", message |-> "ERR_INVALID_ARG_TYPE"]
\* The error a handler of the caller raises: an object of the caller's.
HandlerError(h) == [name |-> "HandlerError", message |-> h]

(***************************************************************************)
(* The handler registry and the dispatch switch.                           *)
(***************************************************************************)
Handlers ==
  {"onCheckoutCompleted", "onRefundCreated", "onDisputeCreated",
   "onSubscriptionActive", "onSubscriptionTrialing", "onSubscriptionPaid",
   "onSubscriptionPaused", "onSubscriptionExpired", "onSubscriptionCanceled",
   "onSubscriptionUnpaid", "onSubscriptionUpdate", "onSubscriptionPastDue",
   "onSubscriptionScheduledCancel", "onGrantAccess", "onRevokeAccess"}

\* The switch before 0.5.0: no case for subscription.scheduled_cancel.
DispatchRow_NoScheduledCancel(eventType) ==
  CASE eventType = "checkout.completed" -> <<"onCheckoutCompleted">>
    [] eventType = "refund.created" -> <<"onRefundCreated">>
    [] eventType = "dispute.created" -> <<"onDisputeCreated">>
    [] eventType = "subscription.active" -> <<"onGrantAccess", "onSubscriptionActive">>
    [] eventType = "subscription.trialing" -> <<"onGrantAccess", "onSubscriptionTrialing">>
    [] eventType = "subscription.paid" -> <<"onGrantAccess", "onSubscriptionPaid">>
    [] eventType = "subscription.paused" -> <<"onRevokeAccess", "onSubscriptionPaused">>
    [] eventType = "subscription.expired" -> <<"onRevokeAccess", "onSubscriptionExpired">>
    [] eventType = "subscription.canceled" -> <<"onSubscriptionCanceled">>
    [] eventType = "subscription.unpaid" -> <<"onSubscriptionUnpaid">>
    [] eventType = "subscription.update" -> <<"onSubscriptionUpdate">>
    [] eventType = "subscription.past_due" -> <<"onSubscriptionPastDue">>
    [] OTHER -> <<>>

\* A switch that also revokes access on subscription.canceled.
DispatchRow_CanceledRevokes(eventType) ==
  CASE eventType = "checkout.completed" -> <<"onCheckoutCompleted">>
    [] eventType = "refund.created" -> <<"onRefundCreated">>
    [] eventType = "dispute.created" -> <<"onDisputeCreated">>
    [] eventType = "subscription.active" -> <<"onGrantAccess", "onSubscriptionActive">>
    [] eventType = "subscription.trialing" -> <<"onGrantAccess", "onSubscriptionTrialing">>
    [] eventType = "subscription.paid" -> <<"onGrantAccess", "onSubscriptionPaid">>
    [] eventType = "subscription.paused" -> <<"onRevokeAccess", "onSubscriptionPaused">>
    [] eventType = "subscription.expired" -> <<"onRevokeAccess", "onSubscriptionExpired">>
    [] eventType = "subscription.canceled" -> <<"onRevokeAccess", "onSubscriptionCanceled">>
    [] eventType = "subscription.unpaid" -> <<"onSubscriptionUnpaid">>
    [] eventType = "subscription.update" -> <<"onSubscriptionUpdate">>
    [] eventType = "subscription.past_due" -> <<"onSubscriptionPastDue">>
    [] eventType = "subscription.scheduled_cancel" -> <<"onSubscriptionScheduledCancel">>
    [] OTHER -> <<>>

\* A switch whose default case hands the event to onSubscriptionUpdate.
DispatchRow_DefaultUpdate(eventType) ==
  CASE eventType = "checkout.completed" -> <<"onCheckoutCompleted">>
    [] eventType = "refund.created" -> <<"onRefundCreated">>
    [] eventType = "dispute.created" -> <<"onDisputeCreated">>
    [] eventType = "subscription.active" -> <<"onGrantAccess", "onSubscriptionActive">>
    [] eventType = "subscription.trialing" -> <<"onGrantAccess", "onSubscriptionTrialing">>
    [] eventType = "subscription.paid" -> <<"onGrantAccess", "onSubscriptionPaid">>
    [] eventType = "subscription.paused" -> <<"onRevokeAccess", "onSubscriptionPaused">>
    [] eventType = "subscription.expired" -> <<"onRevokeAccess", "onSubscriptionExpired">>
    [] eventType = "subscription.canceled" -> <<"onSubscriptionCanceled">>
    [] eventType = "subscription.unpaid" -> <<"onSubscriptionUnpaid">>
    [] eventType = "subscription.update" -> <<"onSubscriptionUpdate">>
    [] eventType = "subscription.past_due" -> <<"onSubscriptionPastDue">>
    [] eventType = "subscription.scheduled_cancel" -> <<"onSubscriptionScheduledCancel">>
    [] OTHER -> <<"onSubscriptionUpdate">>

\* The handlers the switch calls for an event type, in the order of its awaits.
DispatchRow(eventType) ==
  CASE eventType = "checkout.completed" -> <<"onCheckoutCompleted">>
    [] eventType = "refund.created" -> <<"onRefundCreated">>
    [] eventType = "dispute.created" -> <<"onDisputeCreated">>
    [] eventType = "subscription.active" -> <<"onGrantAccess", "onSubscriptionActive">>
    [] eventType = "subscription.trialing" -> <<"onGrantAccess", "onSubscriptionTrialing">>
    [] eventType = "subscription.paid" -> <<"onGrantAccess", "onSubscriptionPaid">>
    [] eventType = "subscription.paused" -> <<"onRevokeAccess", "onSubscriptionPaused">>
    [] eventType = "subscription.expired" -> <<"onRevokeAccess", "onSubscriptionExpired">>
    [] eventType = "subscription.canceled" -> <<"onSubscriptionCanceled">>
    [] eventType = "subscription.unpaid" -> <<"onSubscriptionUnpaid">>
    [] eventType = "subscription.update" -> <<"onSubscriptionUpdate">>
    [] eventType = "subscription.past_due" -> <<"onSubscriptionPastDue">>
    [] eventType = "subscription.scheduled_cancel" -> <<"onSubscriptionScheduledCancel">>
    [] OTHER -> <<>>

\* handlers.h?.(...): "skip" when h is not registered, else what the handler does:
\* it returns, it throws, or it returns a promise that is still pending.
HandlerOutcomes == {"return", "throw", "pending"}
\* handlers.h(...) without the ?.: calling a handler that is not registered raises.
OptionalCall_Required(handlers, h, o) == IF h \in handlers THEN o ELSE "throw"
OptionalCall(handlers, h, o) == IF h \in handlers THEN o ELSE "skip"

(***************************************************************************)
(* One handleEvents call.                                                  *)
(***************************************************************************)
NoPayload == [text |-> <<>>, wellFormed |-> FALSE, value |-> Undefined]

IdleCall ==
  [pc |-> "idle", payload |-> NoPayload, signature |-> Undefined,
   handlers |-> {}, verified |-> "unset", parsed |-> "no", event |-> Undefined,
   normalized |-> Undefined, slot |-> 0, awaiting |-> "none", trace |-> <<>>,
   args |-> <<>>, err |-> NoError]

\* A catch around the switch that rethrows a handler's error as one of its own.
Fail_Wrapped(r, e) ==
  [r EXCEPT !.pc = "failed", !.awaiting = "none",
            !.err = IF e.name = "HandlerError"
                      THEN [name |-> "Error", message |-> "Webhook handler failed"]
                    ELSE e]

\* throw: the promise of handleEvents is rejected with e.
Fail(r, e) == [r EXCEPT !.pc = "failed", !.err = e, !.awaiting = "none"]

Ev(kind, h) == [ev |-> kind, h |-> h]

\* The reason literal of the access-control context of each pre-step case.
ReasonOf(eventType) ==
  CASE eventType = "subscription.active" -> "subscription_active"
    [] eventType = "subscription.trialing" -> "subscription_trialing"
    [] eventType = "subscription.paid" -> "subscription_paid"
    [] eventType = "subscription.paused" -> "subscription_paused"
    [] OTHER -> "subscription_expired"

\* { ...first, ...data }: the fields of first, then those of data over them
\* (null, undefined and numbers spread to nothing).
Spread(first, data) == IF data.t = "object" THEN data.v @@ first ELSE first

\* An argument that holds the entity under one field instead of spreading it.
HandlerArgument_Nested(event, normalizedObject, k) ==
  JObj([webhookEventType |-> Get(event, "eventType"), webhookId |-> Get(event, "id"),
        webhookCreatedAt |-> Get(event, "created_at"), object |-> normalizedObject])

\* The object literal passed to the handler of the k-th await of the event's
\* case: the access-control context in the first of two awaits, else the event.
HandlerArgument(event, normalizedObject, k) ==
  IF Len(DispatchRow(Get(event, "eventType").v)) = 2 /\ k = 1
    THEN JObj(Spread([reason |-> JStr(ReasonOf(Get(event, "eventType").v))],
                     normalizedObject))
  ELSE JObj(Spread([webhookEventType |-> Get(event, "eventType"),
                    webhookId |-> Get(event, "id"),
                    webhookCreatedAt |-> Get(event, "created_at")],
                   normalizedObject))

\* A switch on the embedded object as well: an event that carries a checkout is
\* handled as checkout.completed whatever its eventType.
Dispatch_ByObject(r, k, o) ==
  LET row == IF Get(Get(r.event, "object"), "object").v = "checkout"
               THEN DispatchRow("checkout.completed")
             ELSE DispatchRow(Get(r.event, "eventType").v)
  IN  IF k > Len(row) THEN [r EXCEPT !.pc = "done", !.slot = 0, !.awaiting = "none"]
      ELSE LET h == row[k]
               res == OptionalCall(r.handlers, h, o)
               w == [r EXCEPT !.pc = "await", !.slot = k,
                              !.args = IF res = "skip" THEN r.args
                                       ELSE Append(r.args,
                                                   HandlerArgument(r.event, r.normalized, k))]
           IN  CASE res = "skip" -> [w EXCEPT !.awaiting = "fulfilled"]
                 [] res = "return" ->
                      [w EXCEPT !.awaiting = "fulfilled",
                                !.trace = r.trace \o <<Ev("begin", h), Ev("end", h)>>]
                 [] res = "throw" ->
                      Fail([w EXCEPT !.trace = r.trace \o <<Ev("begin", h), Ev("fail", h)>>],
                           HandlerError(h))
                 [] OTHER ->
                      [w EXCEPT !.awaiting = "pending",
                                !.trace = Append(r.trace, Ev("begin", h))]

\* The switch from its k-th await on: past the row's last await the function
\* returns; else the handler is called (if registered) and its result awaited.
Dispatch(r, k, o) ==
  LET row == DispatchRow(Get(r.event, "eventType").v)
  IN  IF k > Len(row) THEN [r EXCEPT !.pc = "done", !.slot = 0, !.awaiting = "none"]
      ELSE LET h == row[k]
               res == OptionalCall(r.handlers, h, o)
               w == [r EXCEPT !.pc = "await", !.slot = k,
                              !.args = IF res = "skip" THEN r.args
                                       ELSE Append(r.args,
                                                   HandlerArgument(r.event, r.normalized, k))]
           IN  CASE res = "skip" -> [w EXCEPT !.awaiting = "fulfilled"]
                 [] res = "return" ->
                      [w EXCEPT !.awaiting = "fulfilled",
                                !.trace = r.trace \o <<Ev("begin", h), Ev("end", h)>>]
                 [] res = "throw" ->
                      Fail([w EXCEPT !.trace = r.trace \o <<Ev("begin", h), Ev("fail", h)>>],
                           HandlerError(h))
                 [] OTHER ->
                      [w EXCEPT !.awaiting = "pending",
                                !.trace = Append(r.trace, Ev("begin", h))]

\* A payload handed over as a Buffer: its bytes, and what JSON.parse makes of
\* the text they decode to.
IsBuffer(payload) == "bytes" \in DOMAIN payload

\* typeof payload === "string" ? payload : payload.toString("utf8")
payloadString(payload) ==
  IF IsBuffer(payload)
    THEN [text |-> Utf8Decode(payload.bytes), wellFormed |-> payload.wellFormed,
          value |-> payload.value]
  ELSE payload

\* handleEvents parsing the payload before it verifies the signature.
HandleEventsStart_ParseFirst(secret_, payload, signature, handlers, o) ==
  LET base == [IdleCall EXCEPT !.payload = payload, !.signature = signature,
                               !.handlers = handlers]
      ps == payloadString(payload)
  IN  IF ~Truthy(secret_) THEN Fail(base, ConfigError)
      ELSE LET w == [base EXCEPT !.parsed = "yes"]
           IN  IF JSONparseRaises(ps) THEN Fail(w, JsonSyntaxError)
               ELSE IF ~isWebhookEvent(JSONparse(ps)) THEN Fail(w, StructureError)
               ELSE LET ok == verifySignature(ps.text, signature, secret_.v)
                        v == [w EXCEPT !.verified = ok]
                    IN  IF ok = "TypeError" THEN Fail(v, ArgTypeError)
                        ELSE IF ok # "true" THEN Fail(v, SignatureError)
                        ELSE Dispatch([v EXCEPT
                                         !.event = JSONparse(ps),
                                         !.normalized =
                                           normalizeWebhookData(
                                             Get(JSONparse(ps), "object"))],
                                      1, o)

\* handleEvents up to its first await (or to its end).
HandleEventsStart(secret_, payload, signature, handlers, o) ==
  LET base == [IdleCall EXCEPT !.payload = payload, !.signature = signature,
                               !.handlers = handlers]
      ps == payloadString(payload)
  IN  IF ~Truthy(secret_) THEN Fail(base, ConfigError)
      ELSE LET ok == verifySignature(ps.text, signature, secret_.v)
               v == [base EXCEPT !.verified = ok]
           IN  IF ok = "TypeError" THEN Fail(v, ArgTypeError)
               ELSE IF ok # "true" THEN Fail(v, SignatureError)
               ELSE LET w == [v EXCEPT !.parsed = "yes"]
                    IN  IF JSONparseRaises(ps) THEN Fail(w, JsonSyntaxError)
                        ELSE IF ~isWebhookEvent(JSONparse(ps))
                          THEN Fail(w, StructureError)
                        ELSE Dispatch([w EXCEPT
                                         !.event = JSONparse(ps),
                                         !.normalized =
                                           normalizeWebhookData(
                                             Get(JSONparse(ps), "object"))],
                                      1, o)

\* A resumption that does not wait for the awaited promise to settle.
CanResume_NoAwait(r) == r.pc = "await"

\* The awaited promise has settled: handleEvents goes on after the await.
CanResume(r) == r.pc = "await" /\ r.awaiting # "pending"

\* A resumption that swallows the rejection of the awaited handler.
HandleEventsResume_Swallow(r, o) == Dispatch(r, r.slot + 1, o)

\* A one-shot registry: the handler that was awaited is deleted from the
\* caller's handler map when handleEvents goes on.
HandleEventsResume_Unregister(r, o) ==
  LET h == DispatchRow(Get(r.event, "eventType").v)[r.slot]
      n == IF r.awaiting = "rejected" THEN Fail(r, HandlerError(h))
           ELSE Dispatch(r, r.slot + 1, o)
  IN  [n EXCEPT !.handlers = r.handlers \ {h}]

HandleEventsResume(r, o) ==
  IF r.awaiting = "rejected"
    THEN Fail(r, HandlerError(DispatchRow(Get(r.event, "eventType").v)[r.slot]))
  ELSE Dispatch(r, r.slot + 1, o)

\* The pending promise of the handler that is awaited settles.
HandlerSettles(r, res) ==
  LET h == DispatchRow(Get(r.event, "eventType").v)[r.slot]
  IN  [r EXCEPT !.awaiting = res,
                !.trace = Append(r.trace, Ev(IF res = "fulfilled" THEN "end" ELSE "fail", h))]

\* A comparison that returns at the first pair of bytes that differ.
timingSafeEqualReads_EarlyExit(a, b) ==
  IF \E i \in 1..Len(a) : a[i] # b[i]
    THEN CHOOSE i \in 1..Len(a) : a[i] # b[i] /\ \A j \in 1..(i - 1) : a[j] = b[j]
  ELSE Len(a)

\* The pairs of bytes crypto.timingSafeEqual examines: all of them, whatever
\* they hold (the constant-time comparison of Node's crypto).
timingSafeEqualReads(a, b) == Len(a)

\* The pairs of bytes verifySignature compares: none when Buffer.from raises or
\* the lengths differ, else those of timingSafeEqual.
verifySignatureReads(payload, signature, secret) ==
  IF BufferFromRaises(signature) THEN 0
  ELSE LET expectedSignature == generateSignature(payload, secret)
           signatureBuffer == BufferFrom(signature.v)
           expectedBuffer == BufferFrom(expectedSignature)
       IN  IF Len(signatureBuffer) # Len(expectedBuffer) THEN 0
           ELSE timingSafeEqualReads(signatureBuffer, expectedBuffer)

(***************************************************************************)
(* The request function of createRequest (request.ts): an asynchronous     *)
(* function that suspends at await fetch(...) and at await response.json().*)
(***************************************************************************)
\* The error fetch rejects with, and the one response.json() rejects with.
FetchError == [name |-> "TypeError", message |-> "fetch failed"]
ResponseJsonError == [name |-> "SyntaxError", message |-> "response.json"]

NoResponse == [status |-> 0, statusText |-> "", body |-> [json |-> FALSE, value |-> Undefined]]

\* op and params: the operation of a resource that made the call, if one did.
NoRequest ==
  [pc |-> "idle", op |-> "", params |-> Undefined, method |-> "", path |-> <<>>,
   query |-> <<>>, sent |-> Undefined, fetches |-> 0,
   response |-> NoResponse, reads |-> 0, result |-> Undefined, err |-> NoError]

\* response.ok: the status is in the range 200-299.
ResponseOk(response) == response.status \in 200..299

\* String(x) of the message an Error is built with.
JSString(x) ==
  CASE x.t = "string" -> x.v
    [] x.t = "number" -> ToString(x.v)
    [] OTHER -> "[object Object]"

\* An error message that is the status text whatever the body holds.
ErrorMessage_StatusOnly(response) == response.statusText

\* errorBody.message || errorMessage, errorMessage being response.statusText;
\* reading .message of null raises inside the try, as a body that is no JSON does.
ErrorMessage(response) ==
  IF ~response.body.json \/ response.body.value.t = "null" THEN response.statusText
  ELSE LET m == Get(response.body.value, "message")
       IN  IF Truthy(m) THEN JSString(m) ELSE response.statusText

\* The entries of queryParams that are appended to the URL: those whose value
\* is not undefined; none when queryParams is not given.
SearchParams(queryParams) ==
  IF queryParams.t # "object" THEN <<>>
  ELSE [k \in {j \in DOMAIN queryParams.v : queryParams.v[j] # Undefined} |->
          queryParams.v[k]]

\* The call up to await fetch: the URL and the headers are built and fetch is
\* called once, with JSON.stringify(data) as body when data is truthy. A path is
\* the sequence of the pieces of its template.
RequestStart(method, path, data, queryParams) ==
  [NoRequest EXCEPT !.pc = "fetch", !.method = method, !.path = path,
                    !.query = SearchParams(queryParams),
                    !.sent = IF Truthy(data) THEN data ELSE Undefined,
                    !.fetches = 1]

\* A request function that calls fetch a second time when the first call rejects.
FetchSettles_Retry(r, rejected, response) ==
  IF rejected
    THEN IF r.fetches < 2 THEN [r EXCEPT !.fetches = r.fetches + 1]
         ELSE [r EXCEPT !.pc = "failed", !.err = FetchError]
  ELSE LET w == [r EXCEPT !.response = response]
       IN  IF ~ResponseOk(response) THEN [w EXCEPT !.pc = "errorBody", !.reads = r.reads + 1]
           ELSE IF response.status = 204 THEN [w EXCEPT !.pc = "done", !.result = JObj(<<>>)]
           ELSE [w EXCEPT !.pc = "responseData", !.reads = r.reads + 1]

\* The promise of fetch settles: a rejection fails the call; a response that is
\* not ok has its body read for the error message; 204 returns {}; any other
\* ok response has its body read.
FetchSettles(r, rejected, response) ==
  IF rejected THEN [r EXCEPT !.pc = "failed", !.err = FetchError]
  ELSE LET w == [r EXCEPT !.response = response]
       IN  IF ~ResponseOk(response) THEN [w EXCEPT !.pc = "errorBody", !.reads = r.reads + 1]
           ELSE IF response.status = 204 THEN [w EXCEPT !.pc = "done", !.result = JObj(<<>>)]
           ELSE [w EXCEPT !.pc = "responseData", !.reads = r.reads + 1]

\* A request function that returns the decoded body as it came.
JsonSettles_Raw(r) ==
  IF r.pc = "errorBody"
    THEN [r EXCEPT !.pc = "failed",
                   !.err = [name |-> "Error", message |-> ErrorMessage(r.response)]]
  ELSE IF r.response.body.json
    THEN [r EXCEPT !.pc = "done", !.result = r.response.body.value]
  ELSE [r EXCEPT !.pc = "failed", !.err = ResponseJsonError]

\* The promise of response.json() settles: for a response that is not ok the
\* call throws new Error(errorMessage); for an ok one it returns the converted
\* body, or fails with the rejection of json() when the body is no JSON.
JsonSettles(r) ==
  IF r.pc = "errorBody"
    THEN [r EXCEPT !.pc = "failed",
                   !.err = [name |-> "Error", message |-> ErrorMessage(r.response)]]
  ELSE IF r.response.body.json
    THEN [r EXCEPT !.pc = "done", !.result = toCamelCase(r.response.body.value)]
  ELSE [r EXCEPT !.pc = "failed", !.err = ResponseJsonError]

(***************************************************************************)
(* The subscriptions resource (resources/subscriptions.ts). The helpers of *)
(* validate are modelled from their use: required rejects a parameter that *)
(* is absent, isString and isArray one that is given and of another type   *)
(* (the README calls cancel without mode).                                 *)
(***************************************************************************)
requiredRaises(value) == value.t \in {"undefined", "null"}
isStringRaises(value) == value.t \notin {"undefined", "string"}
isArrayRaises(value) == value.t \notin {"undefined", "array"}

ValidationError(name) == [name |-> "ValidationError", message |-> name]

\* The operation raised before it called request.
Invalid(name) == [NoRequest EXCEPT !.pc = "failed", !.err = ValidationError(name)]

subscriptionsGet(params) ==
  LET subscriptionId == Get(params, "subscriptionId")
  IN  IF requiredRaises(subscriptionId) \/ isStringRaises(subscriptionId)
        THEN Invalid("subscriptionId")
      ELSE RequestStart("GET", <<"/v1/subscriptions">>, Undefined,
                        JObj([subscription_id |-> subscriptionId]))

subscriptionsCancel(params) ==
  LET subscriptionId == Get(params, "subscriptionId")
      mode == Get(params, "mode")
  IN  IF requiredRaises(subscriptionId) \/ isStringRaises(subscriptionId)
        THEN Invalid("subscriptionId")
      ELSE IF isStringRaises(mode) THEN Invalid("mode")
      ELSE RequestStart("POST", <<"/v1/subscriptions/", subscriptionId.v, "/cancel">>,
                        JObj([mode |-> mode]), Undefined)

\* items?.map(...): each item with its fields under the wire's names.
WireItems(items) ==
  IF items.t # "array" THEN Undefined
  ELSE JArr([i \in 1..Len(items.v) |->
               JObj([id |-> Get(items.v[i], "id"),
                     product_id |-> Get(items.v[i], "productId"),
                     price_id |-> Get(items.v[i], "priceId"),
                     units |-> Get(items.v[i], "units")])])

subscriptionsUpdate(params) ==
  LET subscriptionId == Get(params, "subscriptionId")
      items == Get(params, "items")
      updateBehavior == Get(params, "updateBehavior")
  IN  IF requiredRaises(subscriptionId) \/ isStringRaises(subscriptionId)
        THEN Invalid("subscriptionId")
      ELSE IF isArrayRaises(items) THEN Invalid("items")
      ELSE IF isStringRaises(updateBehavior) THEN Invalid("updateBehavior")
      ELSE RequestStart("POST", <<"/v1/subscriptions/", subscriptionId.v>>,
                        JObj([items |-> WireItems(items),
                              update_behavior |-> updateBehavior]),
                        Undefined)

\* An upgrade that validates after it has called request.
subscriptionsUpgrade_RequestFirst(params) ==
  RequestStart("POST",
               <<"/v1/subscriptions/",
                 IF Get(params, "subscriptionId").t = "string"
                   THEN Get(params, "subscriptionId").v ELSE "undefined",
                 "/upgrade">>,
               JObj([product_id |-> Get(params, "productId"),
                     update_behavior |-> Get(params, "updateBehavior")]),
               Undefined)

subscriptionsUpgrade(params) ==
  LET subscriptionId == Get(params, "subscriptionId")
      productId == Get(params, "productId")
      updateBehavior == Get(params, "updateBehavior")
  IN  IF requiredRaises(subscriptionId) \/ isStringRaises(subscriptionId)
        THEN Invalid("subscriptionId")
      ELSE IF requiredRaises(productId) \/ isStringRaises(productId)
        THEN Invalid("productId")
      ELSE IF isStringRaises(updateBehavior) THEN Invalid("updateBehavior")
      ELSE RequestStart("POST", <<"/v1/subscriptions/", subscriptionId.v, "/upgrade">>,
                        JObj([product_id |-> productId,
                              update_behavior |-> updateBehavior]),
                        Undefined)

SubscriptionOps == {"get", "cancel", "update", "upgrade"}

subscriptionsResource(op, params) ==
  CASE op = "get" -> subscriptionsGet(params)
    [] op = "cancel" -> subscriptionsCancel(params)
    [] op = "update" -> subscriptionsUpdate(params)
    [] OTHER -> subscriptionsUpgrade(params)

(***************************************************************************)
(* Inputs.                                                                 *)
(***************************************************************************)
EventTypes ==
  {"checkout.completed", "refund.created", "dispute.created",
   "subscription.active", "subscription.trialing", "subscription.paid",
   "subscription.paused", "subscription.expired", "subscription.canceled",
   "subscription.unpaid", "subscription.update", "subscription.past_due",
   "subscription.scheduled_cancel"}

\* The type of the object the platform embeds in an event of a type.
ObjectTypeOf(eventType) ==
  CASE eventType = "checkout.completed" -> "checkout"
    [] eventType = "refund.created" -> "refund"
    [] eventType = "dispute.created" -> "dispute"
    [] OTHER -> "subscription"

Entity(objType) == JObj([object |-> JStr(objType), id |-> JStr("obj_1")])

Envelope(eventType, object) ==
  JObj([id |-> JStr("evt_1"), eventType |-> JStr(eventType),
        created_at |-> JNum(1700000000), object |-> object])

\* Decoded bodies: the 13 event types, an unknown one, and malformed envelopes.
WireEventTypes ==
  <<"checkout.completed", "refund.created", "dispute.created",
    "subscription.active", "subscription.trialing", "subscription.paid",
    "subscription.paused", "subscription.expired", "subscription.canceled",
    "subscription.unpaid", "subscription.update", "subscription.past_due",
    "subscription.scheduled_cancel", "future.event">>

MalformedValues ==
  <<JObj([eventType |-> JStr("subscription.active"), created_at |-> JNum(1700000000),
          object |-> Entity("subscription")]),
    JObj([id |-> JNum(7), eventType |-> JStr("subscription.active"),
          created_at |-> JNum(1700000000), object |-> Entity("subscription")]),
    Envelope("subscription.active", JObj([id |-> JStr("obj_1")])),
    Envelope("subscription.active", Entity("invoice")),
    Envelope("checkout.completed", JNull),
    JNull>>

\* A body is its text (abbreviated to a few code units, one text per body) and
\* what JSON.parse makes of it.
Body(i, value) == [text |-> <<123, i, 125>>, wellFormed |-> TRUE, value |-> value]

ValidPayloads ==
  {Body(i, Envelope(WireEventTypes[i], Entity(ObjectTypeOf(WireEventTypes[i])))) :
     i \in 1..Len(WireEventTypes)}

MalformedPayloads ==
  {Body(64 + i, MalformedValues[i]) : i \in 1..Len(MalformedValues)}
    \cup {[text |-> <<>>, wellFormed |-> FALSE, value |-> Undefined],
          [text |-> <<110, 111>>, wellFormed |-> FALSE, value |-> Undefined]}

Payloads == ValidPayloads \cup MalformedPayloads

\* Embedded objects with content: a subscription with wire-convention keys, a
\* nested customer and a list of items; an object whose own keys convert to the
\* wrapper's webhookId, webhookEventType and webhookCreatedAt; an object with a
\* reason field of its own.
SubscriptionObject ==
  JObj([object |-> JStr("subscription"), id |-> JStr("sub_1"),
        status |-> JStr("active"), created_at |-> JNum(1690000000),
        customer |-> JObj([id |-> JStr("cust_1"), created_at |-> JNum(1680000000)]),
        items |-> JArr(<<JObj([id |-> JStr("item_1"), product_id |-> JStr("prod_1")])>>)])

ShadowingObject ==
  JObj([object |-> JStr("subscription"), id |-> JStr("sub_2"),
        webhook_id |-> JStr("evt_other"), webhookEventType |-> JStr("other.type"),
        webhook_created_at |-> JNum(0)])

ReasonObject ==
  JObj([object |-> JStr("subscription"), id |-> JStr("sub_3"),
        reason |-> JStr("requested_by_customer")])

EmbeddedObjects ==
  <<Entity("checkout"), Entity("customer"), Entity("order"), Entity("product"),
    Entity("subscription"), Entity("refund"), Entity("dispute"),
    Entity("transaction"), SubscriptionObject, ShadowingObject, ReasonObject>>

\* Event types on the wire: those of WireEventTypes and further strings that
\* are no case label of the switch.
EnvelopeEventTypes ==
  WireEventTypes \o <<"subscription.resumed", "Subscription.Active", "">>

\* Every event type with every embedded object, whatever the object's type.
ContentPayloads ==
  {[text |-> <<123, i, j, 125>>, wellFormed |-> TRUE,
    value |-> Envelope(EnvelopeEventTypes[i], EmbeddedObjects[j])] :
     i \in 1..Len(EnvelopeEventTypes), j \in 1..Len(EmbeddedObjects)}

\* Decoded bodies that violate the envelope shape in one place each: eventType
\* absent or a number; created_at absent, a string, or spelled createdAt;
\* object absent, a string, a number or an array; the object's discriminator
\* a number; a body that is a string, an array or a number; an event of a type
\* the switch has no case for that carries an entity of a type outside the list
\* of isWebhookEntity.
ShapeViolations ==
  <<JObj([id |-> JStr("evt_1"), created_at |-> JNum(1700000000),
          object |-> Entity("subscription")]),
    JObj([id |-> JStr("evt_1"), eventType |-> JNum(4),
          created_at |-> JNum(1700000000), object |-> Entity("subscription")]),
    JObj([id |-> JStr("evt_1"), eventType |-> JStr("subscription.active"),
          object |-> Entity("subscription")]),
    JObj([id |-> JStr("evt_1"), eventType |-> JStr("subscription.active"),
          created_at |-> JStr("2023-11-14T22:13:20Z"),
          object |-> Entity("subscription")]),
    JObj([id |-> JStr("evt_1"), eventType |-> JStr("subscription.active"),
          createdAt |-> JNum(1700000000), object |-> Entity("subscription")]),
    JObj([id |-> JStr("evt_1"), eventType |-> JStr("subscription.active"),
          created_at |-> JNum(1700000000)]),
    Envelope("subscription.active", JStr("subscription")),
    Envelope("subscription.active", JNum(1)),
    Envelope("subscription.active", JArr(<<Entity("subscription")>>)),
    Envelope("subscription.active", JObj([object |-> JNum(1), id |-> JStr("obj_1")])),
    JStr("subscription.active"),
    JArr(<<Envelope("subscription.active", Entity("subscription"))>>),
    JNum(1),
    Envelope("future.event", Entity("invoice")),
    Envelope("subscription.resumed", Entity("license"))>>

ShapePayloads ==
  MalformedPayloads \cup {Body(70 + i, ShapeViolations[i]) : i \in 1..Len(ShapeViolations)}

EnvelopePayloads == ContentPayloads \cup ShapePayloads

\* Bodies handed over as text and as a Buffer: two bodies of ASCII text, three
\* whose text holds a character of two bytes, of three bytes and U+FFFD, the
\* UTF-8 encoding of each, and two Buffers that are no UTF-8 (a byte 0xFF, and
\* the first byte of a two-byte sequence without its second).
IntlChars == <<233, 8364, ReplacementChar>>
IntlIds == <<"sub_e_acute", "sub_euro", "sub_replacement">>
IntlText(i) ==
  [text |-> <<123, 34, IntlChars[i], 34, 125>>, wellFormed |-> TRUE,
   value |-> Envelope("subscription.active",
                      JObj([object |-> JStr("subscription"), id |-> JStr(IntlIds[i])]))]
BinaryTexts ==
  {IntlText(i) : i \in 1..Len(IntlChars)}
    \cup {p \in ValidPayloads :
            Get(p.value, "eventType").v \in {"subscription.active", "checkout.completed"}}
BufferOf(p) == [bytes |-> BufferFrom(p.text), wellFormed |-> p.wellFormed, value |-> p.value]
\* What JSON.parse makes of the text a Buffer decodes to.
BufferOfBytes(bytes) ==
  LET p == CHOOSE t \in BinaryTexts : t.text = Utf8Decode(bytes)
  IN  [bytes |-> bytes, wellFormed |-> p.wellFormed, value |-> p.value]
IllFormedBuffers ==
  {BufferOfBytes(<<123, 34, 255, 34, 125>>), BufferOfBytes(<<123, 34, 195, 34, 125>>)}
BinaryPayloads == BinaryTexts \cup {BufferOf(p) : p \in BinaryTexts} \cup IllFormedBuffers

\* Decoded values normalizeWebhookData is applied to on its own: scalars, flat
\* mappings over a wire-convention key, the public-convention key it converts
\* to and a key of one word, arrays of scalars, and these nested in a mapping,
\* in an array and in an array inside a mapping.
MaxItems == 2
NormScalars == {JNull, JNum(1), JStr("scheduled_cancel")}
NormKeys == {"created_at", "createdAt", "status"}
NormFlat == {JObj(f) : f \in UNION {[S -> NormScalars] : S \in SUBSET NormKeys}}
NormLists == {JArr(s) : s \in UNION {[1..n -> NormScalars] : n \in 0..MaxItems}}
NormNested ==
  {JObj([customer |-> v]) : v \in NormFlat \cup NormLists}
    \cup {JObj([product_id |-> v]) : v \in NormFlat \cup NormLists}
    \cup {JArr(<<v, JNum(1)>>) : v \in NormFlat \cup NormLists}
    \cup {JObj([items |-> JArr(<<JObj([product_id |-> v])>>)]) : v \in NormFlat}
NormInputs == NormScalars \cup NormFlat \cup NormLists \cup NormNested

\* Calls of the request function and what the server answers: a success with
\* and without a body, 204, and client and server errors, each with the status
\* text of the status or none (HTTP/2); as body no JSON, null, an array, and
\* mappings with wire-convention keys, a message, an empty and a numeric one.
Methods == {"GET", "POST", "PUT", "DELETE"}
Paths == {<<"/v1/subscriptions">>, <<"/v1/subscriptions/", "sub_1", "/cancel">>}
RequestData == {Undefined, JObj([product_id |-> JStr("prod_1")])}
QueryParams == {Undefined, JObj([subscription_id |-> JStr("sub_1"), page |-> Undefined])}
Statuses == {200, 201, 204, 400, 404, 500}
StatusText(status) ==
  CASE status = 200 -> "OK"
    [] status = 201 -> "Created"
    [] status = 204 -> "No Content"
    [] status = 400 -> "Bad Request"
    [] status = 404 -> "Not Found"
    [] OTHER -> "Internal Server Error"
ResponseBodies ==
  {[json |-> FALSE, value |-> Undefined]}
    \cup {[json |-> TRUE, value |-> v] :
            v \in {JNull,
                   JArr(<<JObj([product_id |-> JStr("prod_1")])>>),
                   JObj([id |-> JStr("sub_1"), product_id |-> JStr("prod_1"),
                         created_at |-> JNum(1)]),
                   JObj([customer |-> JObj([created_at |-> JNum(1)]),
                         status |-> JStr("scheduled_cancel")]),
                   JObj([message |-> JStr("Subscription not found")]),
                   JObj([message |-> JStr("")]),
                   JObj([message |-> JNum(429)]),
                   JObj([status |-> JNum(400)])}}
Responses ==
  UNION {{[status |-> st, statusText |-> tx, body |-> b] :
            tx \in {"", StatusText(st)}, b \in ResponseBodies} : st \in Statuses}

\* Parameters of the subscriptions operations: a subscriptionId that is absent,
\* null, a number or a string; a productId, a mode and an updateBehavior that
\* are absent, a number or a string; items that are absent, a string or an
\* array.
SubscriptionIds == {Undefined, JNull, JNum(7), JStr("sub_1")}
OptionalStrings(str) == {Undefined, JNum(7), JStr(str)}
ItemLists ==
  {Undefined, JStr("item_1"), JArr(<<JObj([id |-> JStr("item_1"), units |-> JNum(5)])>>)}
ParamsOf(op) ==
  CASE op = "get" -> {JObj([subscriptionId |-> sid]) : sid \in SubscriptionIds}
    [] op = "cancel" ->
         {JObj([subscriptionId |-> sid, mode |-> m]) :
            sid \in SubscriptionIds, m \in OptionalStrings("immediate")}
    [] op = "update" ->
         {JObj([subscriptionId |-> sid, items |-> it, updateBehavior |-> ub]) :
            sid \in SubscriptionIds, it \in ItemLists,
            ub \in OptionalStrings("proration-charge")}
    [] OTHER ->
         {JObj([subscriptionId |-> sid, productId |-> pid, updateBehavior |-> ub]) :
            sid \in SubscriptionIds, pid \in OptionalStrings("prod_1"),
            ub \in OptionalStrings("proration-charge")}

\* Secrets createCreem may be given: none, "", and a key.
SecretKey == <<107, 49>>
OtherKey == <<107, 50>>
Secrets == {Undefined, JStr(<<>>), JStr(SecretKey)}

\* One bit of one code unit of a string flipped.
FlipBit(c, b) == IF (c \div (2 ^ b)) % 2 = 1 THEN c - 2 ^ b ELSE c + 2 ^ b
BitFlips(str) ==
  {[str EXCEPT ![i] = FlipBit(str[i], b)] : i \in 1..Len(str), b \in 0..7}

\* The header the platform sends: the hex HMAC of the bytes of the body.
hmacOfBytes(bytes, key) == Hex(Hmac(BufferFrom(key), bytes), 2 * DigestBytes)
BytesOf(payload) == IF IsBuffer(payload) THEN payload.bytes ELSE BufferFrom(payload.text)
BinarySignatures(payload) ==
  LET d == hmacOfBytes(BytesOf(payload), SecretKey)
  IN  {JStr(d), JStr([d EXCEPT ![1] = FlipBit(d[1], 0)]),
       JStr(generateSignature(payloadString(payload).text, SecretKey))}

\* Signature headers: no header, an empty one, the digest under the key, a bit
\* flip of it, a prefix of it, an extension of it, a digit of it replaced by a
\* letter that is no hex digit, and the digest under another key.
SignatureKinds ==
  {"none", "empty", "digest", "flip", "prefix", "extension", "nonhex", "otherkey"}

SignatureOf(kind, payload) ==
  LET d == generateSignature(payload.text, SecretKey)
  IN  CASE kind = "none" -> Undefined
        [] kind = "empty" -> JStr(<<>>)
        [] kind = "digest" -> JStr(d)
        [] kind = "flip" -> JStr([d EXCEPT ![1] = FlipBit(d[1], 0)])
        [] kind = "prefix" -> JStr(SubSeq(d, 1, Len(d) - 1))
        [] kind = "extension" -> JStr(Append(d, 48))
        [] kind = "nonhex" -> JStr([d EXCEPT ![Len(d)] = 103])
        [] OTHER -> JStr(generateSignature(payload.text, OtherKey))

Registries == {R \in SUBSET Handlers : Cardinality(R) <= MaxReg}


\* Inputs of the concurrent model: the five event types with a pre-step and one
\* without, subscription.active also with a subscription that has content and
\* with a checkout as object; a registry that is full, empty, access-control
\* only or specific only.
AccessHandlers == {"onGrantAccess", "onRevokeAccess"}
ConcEventTypes ==
  {"subscription.active", "subscription.trialing", "subscription.paid",
   "subscription.paused", "subscription.expired", "checkout.completed"}
ConcPayloads ==
  {p \in ValidPayloads : Get(p.value, "eventType").v \in ConcEventTypes}
    \cup {p \in ContentPayloads :
            /\ Get(p.value, "eventType").v = "subscription.active"
            /\ Get(p.value, "object") \in {SubscriptionObject, Entity("checkout")}}
ConcRegistries == {Handlers, {}, AccessHandlers, Handlers \ AccessHandlers}
ConcSignatureKinds == {"digest", "flip"}

(***************************************************************************)
(* The state machine.                                                      *)
(***************************************************************************)
Calls == {1, 2}

\* secret: the secret webhooksResource closes over; calls: the handleEvents
\* calls in flight; probe: the last direct application of verifySignature, with
\* the number of byte pairs it compared;
\* norm: the last direct application of normalizeWebhookData; req: the call of
\* the request function in flight.
VARIABLES secret, calls, probe, norm, req

vars == <<secret, calls, probe, norm, req>>

NoNorm == [stage |-> "none", arg |-> Undefined, out |-> Undefined, again |-> Undefined]

NoProbe ==
  [payload |-> <<>>, signature |-> Undefined, secret |-> <<>>, result |-> "unset",
   reads |-> 0]

Init ==
  /\ secret \in Secrets
  /\ calls = [c \in Calls |-> IdleCall]
  /\ probe = NoProbe
  /\ norm = NoNorm
  /\ req = NoRequest

\* A delivery that waits its turn: handleEvents behind a lock that a call holds
\* until its promise has settled.
Call_Serialized(c, payloads, kinds, registries) ==
  /\ calls[c].pc = "idle"
  /\ \A d \in Calls \ {c} : calls[d].pc \in {"idle", "done", "failed"}
  /\ \E p \in payloads, k \in kinds, R \in registries, o \in HandlerOutcomes :
       calls' = [calls EXCEPT
                   ![c] = HandleEventsStart(secret, p, SignatureOf(k, p), R, o)]
  /\ UNCHANGED <<secret, probe, norm, req>>

\* A delivery that remembers the bodies it has dispatched: a body seen in another
\* call is acknowledged without invoking a handler.
Call_Dedup(c, payloads, kinds, registries) ==
  /\ calls[c].pc = "idle"
  /\ \E p \in payloads, k \in kinds, R \in registries, o \in HandlerOutcomes :
       LET full == HandleEventsStart(secret, p, SignatureOf(k, p), R, o)
           seen == \E d \in Calls \ {c} :
                     calls[d].event # Undefined /\ calls[d].payload = p
       IN  calls' = [calls EXCEPT
                       ![c] = IF seen /\ full.event # Undefined
                                THEN [full EXCEPT !.pc = "done", !.slot = 0,
                                                  !.awaiting = "none", !.trace = <<>>,
                                                  !.args = <<>>, !.err = NoError]
                              ELSE full]
  /\ UNCHANGED <<secret, probe, norm, req>>

\* A delivery: handleEvents is called with a payload, a signature header and a
\* handler registry; o is what the first handler it calls does.
Call(c, payloads, kinds, registries) ==
  /\ calls[c].pc = "idle"
  /\ \E p \in payloads, k \in kinds, R \in registries, o \in HandlerOutcomes :
       calls' = [calls EXCEPT
                   ![c] = HandleEventsStart(secret, p, SignatureOf(k, p), R, o)]
  /\ UNCHANGED <<secret, probe, norm, req>>

Settle(c) ==
  /\ calls[c].pc = "await"
  /\ calls[c].awaiting = "pending"
  /\ \E res \in {"fulfilled", "rejected"} :
       calls' = [calls EXCEPT ![c] = HandlerSettles(calls[c], res)]
  /\ UNCHANGED <<secret, probe, norm, req>>

Resume(c) ==
  /\ CanResume(calls[c])
  /\ \E o \in HandlerOutcomes :
       calls' = [calls EXCEPT ![c] = HandleEventsResume(calls[c], o)]
  /\ UNCHANGED <<secret, probe, norm, req>>

\* The caller has seen the promise of handleEvents settle.
Return(c) ==
  /\ calls[c].pc \in {"done", "failed"}
  /\ calls' = [calls EXCEPT ![c] = IdleCall]
  /\ UNCHANGED <<secret, probe, norm, req>>

\* Deliveries one at a time: every payload, signature and registry of the bounds.
Next ==
  \/ Call(1, Payloads, SignatureKinds, Registries)
  \/ Settle(1)
  \/ Resume(1)
  \/ Return(1)

Spec == Init /\ [][Next]_vars

\* Deliveries that overlap: a call may start, and a handler settle, while
\* another call is suspended at an await.
ConcNext ==
  \E c \in Calls :
    \/ Call(c, ConcPayloads, ConcSignatureKinds, ConcRegistries)
    \/ Settle(c)
    \/ Resume(c)
    \/ Return(c)

ConcSpec == Init /\ [][ConcNext]_vars

\* Two deliveries of subscription events (one that grants, one that revokes
\* access), correctly signed, to a caller that registers every handler.
PairPayloads ==
  {p \in ValidPayloads :
     Get(p.value, "eventType").v \in {"subscription.active", "subscription.paused"}}

PairNext ==
  \E c \in Calls :
    \/ Call(c, PairPayloads, {"digest"}, {Handlers})
    \/ Settle(c)
    \/ Resume(c)
    \/ Return(c)

PairSpec == Init /\ [][PairNext]_vars

\* Deliveries of bodies as text and as Buffers, signed over their bytes, to a
\* registry that is full or empty.
CallBinary(c) ==
  /\ calls[c].pc = "idle"
  /\ \E p \in BinaryPayloads, R \in {Handlers, {}}, o \in HandlerOutcomes :
       \E s \in BinarySignatures(p) :
         calls' = [calls EXCEPT ![c] = HandleEventsStart(secret, p, s, R, o)]
  /\ UNCHANGED <<secret, probe, norm, req>>

BinaryNext ==
  \E c \in Calls :
    \/ CallBinary(c)
    \/ Settle(c)
    \/ Resume(c)
    \/ Return(c)

BinarySpec == Init /\ [][BinaryNext]_vars

\* Deliveries one at a time of every body of EnvelopePayloads, well signed or
\* not, to a registry that is full, empty, access-control only or specific only.
EnvelopeNext ==
  \/ Call(1, EnvelopePayloads, ConcSignatureKinds, ConcRegistries)
  \/ Settle(1)
  \/ Resume(1)
  \/ Return(1)

EnvelopeSpec == Init /\ [][EnvelopeNext]_vars

\* The same deliveries under the scheduling of the event loop: the continuation
\* of an await runs once the awaited promise has settled. Whether a handler's
\* promise settles is the handler's affair and no assumption of the model.
LiveSpec == Init /\ [][EnvelopeNext]_vars /\ WF_vars(Resume(1))

\* verifySignature applied on its own: every payload, both keys, and as the
\* signature each header of SignatureKinds, each single-bit variant of the
\* digest, the digest in capitals and the digest with white space before it,
\* after it and around it.
ProbeSignatures(p, key) ==
  LET d == generateSignature(p.text, key)
  IN  {SignatureOf(k, p) : k \in SignatureKinds}
        \cup {JStr(d)}
        \cup {JStr(f) : f \in BitFlips(d)}
        \cup {JStr(UpperHex(d)), JStr(<<32>> \o d), JStr(d \o <<10>>),
              JStr(<<32>> \o d \o <<13, 10>>)}

Verify ==
  /\ probe = NoProbe
  /\ \E p \in Payloads, key \in {SecretKey, OtherKey} :
       \E s \in ProbeSignatures(p, key) :
         probe' = [payload |-> p.text, signature |-> s, secret |-> key,
                   result |-> verifySignature(p.text, s, key),
                   reads |-> verifySignatureReads(p.text, s, key)]
  /\ UNCHANGED <<secret, calls, norm, req>>

Forget ==
  /\ probe # NoProbe
  /\ probe' = NoProbe
  /\ UNCHANGED <<secret, calls, norm, req>>

VerifyNext == Verify \/ Forget

VerifySpec == Init /\ [][VerifyNext]_vars

\* normalizeWebhookData applied on its own, and applied again to its result.
Normalize ==
  /\ norm.stage = "none"
  /\ \E x \in NormInputs :
       norm' = [stage |-> "once", arg |-> x, out |-> normalizeWebhookData(x),
                again |-> Undefined]
  /\ UNCHANGED <<secret, calls, probe, req>>

Renormalize ==
  /\ norm.stage = "once"
  /\ norm' = [norm EXCEPT !.stage = "twice", !.again = normalizeWebhookData(norm.out)]
  /\ UNCHANGED <<secret, calls, probe, req>>

Discard ==
  /\ norm.stage = "twice"
  /\ norm' = NoNorm
  /\ UNCHANGED <<secret, calls, probe, req>>

NormalizeNext == Normalize \/ Renormalize \/ Discard

NormalizeSpec == Init /\ [][NormalizeNext]_vars

\* A call of the request function, the settling of fetch, the settling of
\* response.json(), and the caller seeing the outcome.
Request ==
  /\ req.pc = "idle"
  /\ \E m \in Methods, pa \in Paths, d \in RequestData, q \in QueryParams :
       req' = RequestStart(m, pa, d, q)
  /\ UNCHANGED <<secret, calls, probe, norm>>

FetchDone ==
  /\ req.pc = "fetch"
  /\ \/ req' = FetchSettles(req, TRUE, NoResponse)
     \/ \E response \in Responses : req' = FetchSettles(req, FALSE, response)
  /\ UNCHANGED <<secret, calls, probe, norm>>

JsonDone ==
  /\ req.pc \in {"errorBody", "responseData"}
  /\ req' = JsonSettles(req)
  /\ UNCHANGED <<secret, calls, probe, norm>>

RequestReturn ==
  /\ req.pc \in {"done", "failed"}
  /\ req' = NoRequest
  /\ UNCHANGED <<secret, calls, probe, norm>>

RequestNext == Request \/ FetchDone \/ JsonDone \/ RequestReturn

\* An operation of the subscriptions resource is called: it raises, or calls
\* the request function.
SubscriptionsCall ==
  /\ req.pc = "idle"
  /\ \E op \in SubscriptionOps :
       \E params \in ParamsOf(op) :
         req' = [subscriptionsResource(op, params) EXCEPT !.op = op, !.params = params]
  /\ UNCHANGED <<secret, calls, probe, norm>>

SubscriptionsNext == SubscriptionsCall \/ FetchDone \/ JsonDone \/ RequestReturn

SubscriptionsSpec == Init /\ [][SubscriptionsNext]_vars

RequestSpec == Init /\ [][RequestNext]_vars

(***************************************************************************)
(* What the properties below read off a call.                              *)
(***************************************************************************)
\* The handlers a call has invoked, in order.
Begun(r) == SelectSeq(r.trace, LAMBDA e : e.ev = "begin")
Invoked(r) == [i \in 1..Len(Begun(r)) |-> Begun(r)[i].h]

\* The event type of the body a call was given (when the body is an envelope).
TypeOfCall(r) ==
  IF r.payload.value.t = "object" /\ TypeOf(Get(r.payload.value, "eventType")) = "string"
    THEN Get(r.payload.value, "eventType").v
  ELSE ""

\* The call has passed verification and parsing.
Dispatched(r) == r.pc # "idle" /\ r.event # Undefined

Restrict(seq, S) == SelectSeq(seq, LAMBDA h : h \in S)
IsPrefix(s, t) == Len(s) <= Len(t) /\ SubSeq(t, 1, Len(s)) = s

\* The dispatch table as the specification states it (section 4.4).
GrantTypes == {"subscription.active", "subscription.trialing", "subscription.paid"}
RevokeTypes == {"subscription.paused", "subscription.expired"}
PreStepTypes == GrantTypes \cup RevokeTypes

SpecificOf ==
  [et \in EventTypes |->
     CASE et = "checkout.completed" -> "onCheckoutCompleted"
       [] et = "refund.created" -> "onRefundCreated"
       [] et = "dispute.created" -> "onDisputeCreated"
       [] et = "subscription.active" -> "onSubscriptionActive"
       [] et = "subscription.trialing" -> "onSubscriptionTrialing"
       [] et = "subscription.paid" -> "onSubscriptionPaid"
       [] et = "subscription.paused" -> "onSubscriptionPaused"
       [] et = "subscription.expired" -> "onSubscriptionExpired"
       [] et = "subscription.canceled" -> "onSubscriptionCanceled"
       [] et = "subscription.unpaid" -> "onSubscriptionUnpaid"
       [] et = "subscription.update" -> "onSubscriptionUpdate"
       [] et = "subscription.past_due" -> "onSubscriptionPastDue"
       [] OTHER -> "onSubscriptionScheduledCancel"]

TableRow(et) ==
  IF et \in GrantTypes THEN <<"onGrantAccess", SpecificOf[et]>>
  ELSE IF et \in RevokeTypes THEN <<"onRevokeAccess", SpecificOf[et]>>
  ELSE <<SpecificOf[et]>>

PreDispatchErrors ==
  {ConfigError, SignatureError, StructureError, JsonSyntaxError, ArgTypeError}

\* The call was made with a secret configured and the digest of its payload
\* under that secret as signature.
CorrectlySigned(r) ==
  /\ r.pc # "idle"
  /\ Truthy(secret)
  /\ r.signature = JStr(generateSignature(r.payload.text, secret.v))

\* The defects of a body that section 4.2 of the specification lists.
NotDecodable(p) == p.text = <<>> \/ ~p.wellFormed
EnvelopeDefect(v) ==
  \/ Get(v, "id").t # "string"
  \/ Get(v, "eventType").t # "string"
  \/ Get(v, "created_at").t # "number"
  \/ Get(v, "object").t # "object"
  \/ Get(Get(v, "object"), "object").t # "string"
  \/ Get(Get(v, "object"), "object").v \notin EntityTypes
Defective(p) == NotDecodable(p) \/ EnvelopeDefect(p.value)

(***************************************************************************)
(* C1. No handler is invoked unless the secret is configured, the          *)
(* signature is the digest of the payload under the secret and the payload *)
(* is a valid envelope; a call that fails with a configuration, signature  *)
(* or malformed-payload error has invoked no handler.                      *)
(***************************************************************************)
C1_NoHandlerOnInvalid ==
  \A c \in Calls :
    LET r == calls[c]
    IN  /\ (r.pc = "failed" /\ r.err \in PreDispatchErrors) => Invoked(r) = <<>>
        /\ Invoked(r) # <<>> =>
             /\ Truthy(secret)
             /\ r.signature = JStr(generateSignature(r.payload.text, secret.v))
             /\ r.payload \in ValidPayloads

\* A correctly signed envelope whose object has no valid type discriminator was
\* rejected although a handler of its event type is registered.
C1_Witness ==
  \E c \in Calls :
    /\ calls[c].pc = "failed"
    /\ calls[c].err = StructureError
    /\ calls[c].payload.wellFormed
    /\ TypeOfCall(calls[c]) = "subscription.active"
    /\ "onSubscriptionActive" \in calls[c].handlers
    /\ Invoked(calls[c]) = <<>>

(***************************************************************************)
(* C2. For the five event types with a pre-step and both handlers          *)
(* registered, the access-control handler has completed before the         *)
(* specific handler begins, and a call never has two handlers running:     *)
(* every handler it began has ended before it begins the next. Checked     *)
(* with handlers that suspend and with a second call in flight.            *)
(***************************************************************************)
C2_AccessBeforeSpecific ==
  \A c \in Calls :
    LET r == calls[c]
        tr == r.trace
    IN  /\ \A j \in 1..Len(tr) :
             (/\ tr[j].ev = "begin"
              /\ TypeOfCall(r) \in PreStepTypes
              /\ tr[j].h = TableRow(TypeOfCall(r))[2]
              /\ TableRow(TypeOfCall(r))[1] \in r.handlers)
             => \E i \in 1..(j - 1) : tr[i] = Ev("end", TableRow(TypeOfCall(r))[1])
        /\ \A j \in 1..(Len(tr) - 1) :
             tr[j].ev = "begin" => (tr[j + 1].ev # "begin" /\ tr[j + 1].h = tr[j].h)

\* The specific handler of one call is running, after its access-control
\* handler suspended and completed, while the other call awaits a handler of
\* its own that is still pending.
C2_Witness ==
  \E c, d \in Calls :
    /\ c # d
    /\ TypeOfCall(calls[c]) = "subscription.paused"
    /\ calls[c].trace = <<Ev("begin", "onRevokeAccess"), Ev("end", "onRevokeAccess"),
                          Ev("begin", "onSubscriptionPaused")>>
    /\ calls[c].awaiting = "pending"
    /\ calls[d].pc = "await"
    /\ calls[d].awaiting = "pending"

(***************************************************************************)
(* C3. Once a handler has raised, the call invokes no further handler and  *)
(* fails with that handler's error: when the access-control handler of a   *)
(* pre-step event raises, the specific handler is never invoked.           *)
(***************************************************************************)
C3_NoHandlerAfterRaise ==
  \A c \in Calls :
    LET r == calls[c]
        tr == r.trace
    IN  /\ \A j \in 1..Len(tr) : tr[j].ev = "fail" => j = Len(tr)
        /\ \A j \in 1..Len(tr) :
             tr[j].ev = "fail" =>
               /\ r.pc \in {"await", "failed"}
               /\ r.pc = "failed" => r.err = HandlerError(tr[j].h)
               /\ r.pc = "await" =>
                    \A o \in HandlerOutcomes :
                      /\ HandleEventsResume(r, o).pc = "failed"
                      /\ HandleEventsResume(r, o).trace = tr
        /\ (TypeOfCall(r) \in PreStepTypes
            /\ \E j \in 1..Len(tr) : tr[j] = Ev("fail", TableRow(TypeOfCall(r))[1]))
           => \A j \in 1..Len(tr) : tr[j].h # SpecificOf[TypeOfCall(r)]

\* onGrantAccess suspended and then raised for subscription.active with
\* onSubscriptionActive registered: the call failed without invoking it.
C3_Witness ==
  \E c \in Calls :
    /\ calls[c].pc = "failed"
    /\ TypeOfCall(calls[c]) = "subscription.active"
    /\ calls[c].handlers = {"onGrantAccess", "onSubscriptionActive"}
    /\ calls[c].trace = <<Ev("begin", "onGrantAccess"), Ev("fail", "onGrantAccess")>>
    /\ calls[c].err = HandlerError("onGrantAccess")

(***************************************************************************)
(* C4. For a verified, well-formed event of one of the 13 recognized types *)
(* the handlers invoked are, in order, the row of the dispatch table for   *)
(* the type restricted to the registered handlers: at every moment a       *)
(* prefix of it, and all of it when the call completes successfully.       *)
(***************************************************************************)
C4_DispatchTable ==
  \A c \in Calls :
    LET r == calls[c]
    IN  (Dispatched(r) /\ TypeOfCall(r) \in EventTypes) =>
          /\ IsPrefix(Invoked(r), Restrict(TableRow(TypeOfCall(r)), r.handlers))
          /\ r.pc = "done" => Invoked(r) = Restrict(TableRow(TypeOfCall(r)), r.handlers)

\* A subscription.scheduled_cancel delivery completed: it invoked
\* onSubscriptionScheduledCancel and not the other handler registered.
C4_Witness ==
  \E c \in Calls :
    /\ calls[c].pc = "done"
    /\ TypeOfCall(calls[c]) = "subscription.scheduled_cancel"
    /\ calls[c].handlers = {"onSubscriptionScheduledCancel", "onSubscriptionCanceled"}
    /\ Invoked(calls[c]) = <<"onSubscriptionScheduledCancel">>

C6_MissingHandlerSkipped ==
  \A c \in Calls :
    LET r == calls[c]
        tr == r.trace
        row == TableRow(TypeOfCall(r))
    IN  /\ \A j \in 1..Len(tr) : tr[j].h \in r.handlers
        /\ (Dispatched(r) /\ r.pc = "failed") => \E j \in 1..Len(tr) : tr[j].ev = "fail"
        /\ (Dispatched(r) /\ TypeOfCall(r) \in PreStepTypes) =>
             /\ (row[2] \in r.handlers /\ row[1] \notin r.handlers) =>
                  /\ r.pc = "done" => Invoked(r) = <<row[2]>>
                  /\ (r.pc = "await" /\ r.slot = 2) => Invoked(r) = <<row[2]>>
             /\ (row[1] \in r.handlers /\ row[2] \notin r.handlers) =>
                  /\ r.pc = "done" => Invoked(r) = <<row[1]>>
                  /\ r.pc = "await" => Invoked(r) = <<row[1]>>

\* subscription.active with only onGrantAccess registered: the call completed
\* after invoking it once.
C6_Witness ==
  \E c \in Calls :
    /\ calls[c].pc = "done"
    /\ TypeOfCall(calls[c]) = "subscription.active"
    /\ calls[c].handlers = {"onGrantAccess"}
    /\ Invoked(calls[c]) = <<"onGrantAccess">>

(***************************************************************************)
(* C7. With a secret configured, a call given a signature string that is   *)
(* not the digest of its payload under the secret fails with "Invalid      *)
(* webhook signature", whether or not the payload is a well-formed         *)
(* envelope; for every signature value that is not the digest the payload  *)
(* is not parsed and no handler is invoked.                                *)
(***************************************************************************)
C7_VerifyBeforeParse ==
  \A c \in Calls :
    LET r == calls[c]
    IN  (/\ r.pc # "idle"
         /\ Truthy(secret)
         /\ r.signature # JStr(generateSignature(r.payload.text, secret.v)))
        => /\ r.pc = "failed"
           /\ r.signature.t = "string" => r.err = SignatureError
           /\ r.parsed = "no"
           /\ r.trace = <<>>

\* A body that is not well-formed JSON, signed with the digest under another
\* key, was rejected for its signature.
C7_Witness ==
  \E c \in Calls :
    /\ calls[c].pc = "failed"
    /\ ~calls[c].payload.wellFormed
    /\ calls[c].signature = JStr(generateSignature(calls[c].payload.text, OtherKey))
    /\ calls[c].err = SignatureError
    /\ calls[c].parsed = "no"

(***************************************************************************)
(* C8. The verifier never raises: with a secret configured, for every      *)
(* signature value that is not the digest of the payload (an absent        *)
(* header, an empty string, a string of another length, a string that is   *)
(* not hex) verification yields false and the call fails with "Invalid     *)
(* webhook signature".                                                     *)
(***************************************************************************)
C8_VerifierNeverRaises ==
  \A c \in Calls :
    LET r == calls[c]
    IN  (/\ r.pc # "idle"
         /\ Truthy(secret)
         /\ r.signature # JStr(generateSignature(r.payload.text, secret.v)))
        => /\ r.verified = "false"
           /\ r.err = SignatureError

(***************************************************************************)
(* C9. When the secret is absent or empty, every call fails with the       *)
(* configuration error, before the signature is verified and with no       *)
(* handler invoked, whatever its payload, signature and registry.          *)
(***************************************************************************)
C9_SecretRequired ==
  \A c \in Calls :
    LET r == calls[c]
    IN  (r.pc # "idle" /\ secret \in {Undefined, JStr(<<>>)})
        => /\ r.pc = "failed"
           /\ r.err = ConfigError
           /\ r.verified = "unset"
           /\ r.parsed = "no"
           /\ r.trace = <<>>

\* With the secret "", a valid envelope carrying the digest under the key and a
\* handler for its type was rejected as a configuration error.
C9_Witness ==
  \E c \in Calls :
    /\ secret = JStr(<<>>)
    /\ calls[c].pc = "failed"
    /\ calls[c].err = ConfigError
    /\ calls[c].payload \in ValidPayloads
    /\ calls[c].signature = JStr(generateSignature(calls[c].payload.text, SecretKey))
    /\ calls[c].handlers # {}

(***************************************************************************)
(* C10. verifySignature accepts the digest of the payload under the secret *)
(* and rejects every string that differs from that digest in one bit.      *)
(***************************************************************************)
C10_VerifyRoundTrip ==
  probe.result # "unset" =>
    LET d == generateSignature(probe.payload, probe.secret)
    IN  /\ probe.signature = JStr(d) => probe.result = "true"
        /\ (probe.signature.t = "string" /\ probe.signature.v \in BitFlips(d))
           => probe.result = "false"

\* The digest with the lowest bit of its last digit flipped, a string of the
\* same length, was rejected.
C10_Witness ==
  LET d == generateSignature(probe.payload, probe.secret)
  IN  /\ probe.result = "false"
      /\ probe.signature = JStr([d EXCEPT ![Len(d)] = FlipBit(d[Len(d)], 0)])

(***************************************************************************)
(* C11. Parsing is all-or-nothing: a correctly signed payload that is      *)
(* empty, is not well-formed, lacks a string id, a string eventType or a   *)
(* numeric created_at, or whose object is absent, is no mapping, or has a  *)
(* type discriminator that is absent, no string or outside the eight       *)
(* entity types, is rejected before dispatch with no event, no normalized  *)
(* object and no handler invoked; every other correctly signed payload is  *)
(* dispatched.                                                             *)
(***************************************************************************)
C11_ParseAllOrNothing ==
  \A c \in Calls :
    LET r == calls[c]
    IN  CorrectlySigned(r) =>
          IF Defective(r.payload)
            THEN /\ r.pc = "failed"
                 /\ r.err \in {StructureError, JsonSyntaxError}
                 /\ r.parsed = "yes"
                 /\ r.event = Undefined
                 /\ r.normalized = Undefined
                 /\ r.trace = <<>>
                 /\ r.args = <<>>
          ELSE Dispatched(r) /\ r.event = r.payload.value

\* A correctly signed envelope whose object is an array holding a subscription
\* was rejected with every handler registered.
C11_Witness ==
  \E c \in Calls :
    /\ CorrectlySigned(calls[c])
    /\ calls[c].payload.value =
         Envelope("subscription.active", JArr(<<Entity("subscription")>>))
    /\ calls[c].handlers = Handlers
    /\ calls[c].pc = "failed"
    /\ calls[c].trace = <<>>

(***************************************************************************)
(* C12. Every parsing failure of a correctly signed payload surfaces from  *)
(* handleEvents as the error "Invalid webhook event structure", for text   *)
(* that is not well-formed (empty text included) as for well-formed data   *)
(* that does not conform to the envelope shape.                            *)
(***************************************************************************)
C12_OneParseError ==
  \A c \in Calls :
    LET r == calls[c]
    IN  (CorrectlySigned(r) /\ Defective(r.payload)) =>
          /\ r.pc = "failed"
          /\ r.err = StructureError

(***************************************************************************)
(* C13. A correctly signed, well-formed envelope whose eventType is a      *)
(* string outside the 13 recognized values makes handleEvents complete     *)
(* successfully at once, with no handler invoked whatever the registry     *)
(* holds, and without an error.                                            *)
(***************************************************************************)
C13_UnknownTypeIgnored ==
  \A c \in Calls :
    LET r == calls[c]
    IN  (/\ CorrectlySigned(r)
         /\ ~Defective(r.payload)
         /\ Get(r.payload.value, "eventType").v \notin EventTypes)
        => /\ r.pc = "done"
           /\ r.err = NoError
           /\ r.trace = <<>>
           /\ r.args = <<>>

\* A subscription.resumed event, which the switch has no case for, completed
\* with every handler registered and none invoked.
C13_Witness ==
  \E c \in Calls :
    /\ calls[c].pc = "done"
    /\ Dispatched(calls[c])
    /\ Get(calls[c].event, "eventType") = JStr("subscription.resumed")
    /\ calls[c].handlers = Handlers
    /\ calls[c].trace = <<>>

(***************************************************************************)
(* C14. The argument passed to a specific-event handler has                *)
(* webhookEventType equal to the envelope's eventType, webhookId equal to  *)
(* the envelope's id and webhookCreatedAt equal to the envelope's          *)
(* created_at, whatever the embedded object holds, keys that normalize to  *)
(* webhookEventType, webhookId or webhookCreatedAt included.               *)
(***************************************************************************)
C14_WrapperFromEnvelope ==
  \A c \in Calls :
    LET r == calls[c]
    IN  \A i \in 1..Len(r.args) :
          Invoked(r)[i] \notin AccessHandlers =>
            /\ r.args[i].v.webhookEventType = Get(r.event, "eventType")
            /\ r.args[i].v.webhookId = Get(r.event, "id")
            /\ r.args[i].v.webhookCreatedAt = Get(r.event, "created_at")

(***************************************************************************)
(* C15. For the five pre-step event types the context passed to            *)
(* onGrantAccess or onRevokeAccess has reason equal to the reason of the   *)
(* type's row (subscription_active, subscription_trialing,                 *)
(* subscription_paid, subscription_paused, subscription_expired), whatever *)
(* the embedded object holds, a reason field of its own included.          *)
(***************************************************************************)
RowReason ==
  [et \in PreStepTypes |->
     CASE et = "subscription.active" -> JStr("subscription_active")
       [] et = "subscription.trialing" -> JStr("subscription_trialing")
       [] et = "subscription.paid" -> JStr("subscription_paid")
       [] et = "subscription.paused" -> JStr("subscription_paused")
       [] OTHER -> JStr("subscription_expired")]

C15_ReasonOfRow ==
  \A c \in Calls :
    LET r == calls[c]
    IN  \A i \in 1..Len(r.args) :
          Invoked(r)[i] \in AccessHandlers =>
            /\ TypeOfCall(r) \in PreStepTypes
            /\ r.args[i].v.reason = RowReason[TypeOfCall(r)]

(***************************************************************************)
(* C16. Every handler argument is flat: its fields are the wrapper fields  *)
(* of the handler (reason for an access-control handler, webhookEventType, *)
(* webhookId and webhookCreatedAt for a specific one) and the top-level    *)
(* fields of the normalized embedded object, each of these with the value  *)
(* it has in the normalized object; no field of the argument holds the     *)
(* entity as a whole.                                                      *)
(***************************************************************************)
WrapperKeys(h) ==
  IF h \in AccessHandlers THEN {"reason"}
  ELSE {"webhookEventType", "webhookId", "webhookCreatedAt"}

C16_FlatArgument ==
  \A c \in Calls :
    LET r == calls[c]
    IN  /\ Len(r.args) = Len(Invoked(r))
        /\ \A i \in 1..Len(r.args) :
             LET a == r.args[i].v
                 n == r.normalized.v
             IN  /\ r.args[i].t = "object"
                 /\ DOMAIN a = DOMAIN n \cup WrapperKeys(Invoked(r)[i])
                 /\ \A k \in DOMAIN n : a[k] = n[k]
                 /\ \A k \in DOMAIN a :
                      a[k].t = "object" =>
                        (a[k].v # n /\ a[k].v # Get(r.event, "object").v)

\* onSubscriptionPaid received the subscription's fields at top level under
\* their converted keys, the nested customer converted too, next to the
\* envelope's id.
C16_Witness ==
  \E c \in Calls :
    /\ Invoked(calls[c]) = <<"onGrantAccess", "onSubscriptionPaid">>
    /\ Get(calls[c].event, "object") = SubscriptionObject
    /\ calls[c].args[2].v.createdAt = JNum(1690000000)
    /\ calls[c].args[2].v.customer =
         JObj([id |-> JStr("cust_1"), createdAt |-> JNum(1680000000)])
    /\ calls[c].args[2].v.webhookId = JStr("evt_1")
    /\ calls[c].args[1].v.status = JStr("active")

(***************************************************************************)
(* C17. The error a handler raised, pre-step or specific, is the error     *)
(* handleEvents fails with, unchanged; a call invokes no handler twice     *)
(* (nothing is retried); and when the specific handler raises after the    *)
(* access-control handler completed, that completion stands: the call has  *)
(* failed with the access-control handler begun and ended once before the  *)
(* specific handler began.                                                 *)
(***************************************************************************)
C17_HandlerErrorVerbatim ==
  \A c \in Calls :
    LET r == calls[c]
        tr == r.trace
    IN  /\ (r.pc = "failed" /\ Dispatched(r)) =>
             /\ tr # <<>>
             /\ tr[Len(tr)].ev = "fail"
             /\ r.err = HandlerError(tr[Len(tr)].h)
        /\ \A i, j \in 1..Len(tr) :
             (tr[i].ev = "begin" /\ tr[j].ev = "begin" /\ tr[i].h = tr[j].h) => i = j
        /\ (/\ r.pc = "failed"
            /\ Dispatched(r)
            /\ TypeOfCall(r) \in PreStepTypes
            /\ TableRow(TypeOfCall(r))[1] \in r.handlers
            /\ tr[Len(tr)].h = SpecificOf[TypeOfCall(r)])
           => tr = <<Ev("begin", TableRow(TypeOfCall(r))[1]),
                     Ev("end", TableRow(TypeOfCall(r))[1]),
                     Ev("begin", SpecificOf[TypeOfCall(r)]),
                     Ev("fail", SpecificOf[TypeOfCall(r)])>>

\* onRevokeAccess completed for subscription.expired, then
\* onSubscriptionExpired raised: the call failed with that handler's error.
C17_Witness ==
  \E c \in Calls :
    /\ calls[c].pc = "failed"
    /\ TypeOfCall(calls[c]) = "subscription.expired"
    /\ calls[c].trace = <<Ev("begin", "onRevokeAccess"), Ev("end", "onRevokeAccess"),
                          Ev("begin", "onSubscriptionExpired"),
                          Ev("fail", "onSubscriptionExpired")>>
    /\ calls[c].err = HandlerError("onSubscriptionExpired")

(***************************************************************************)
(* C18. With an empty handler registry and a secret configured, a          *)
(* correctly signed, well-formed event of a recognized or unrecognized     *)
(* type never fails and never waits for a handler: the call runs to its    *)
(* end with no invocation; a signature that is not the payload's digest    *)
(* and a correctly signed payload that is malformed still make the call    *)
(* fail with the verifier's or the parser's error.                         *)
(***************************************************************************)
C18_EmptyRegistry ==
  \A c \in Calls :
    LET r == calls[c]
    IN  (r.pc # "idle" /\ r.handlers = {} /\ Truthy(secret)) =>
          /\ r.trace = <<>>
          /\ r.args = <<>>
          /\ (CorrectlySigned(r) /\ ~Defective(r.payload)) =>
               /\ r.pc \in {"await", "done"}
               /\ r.err = NoError
               /\ r.pc = "await" =>
                    /\ r.awaiting = "fulfilled"
                    /\ \A o \in HandlerOutcomes :
                         HandleEventsResume(r, o).pc \in {"await", "done"}
          /\ ~CorrectlySigned(r) =>
               (r.pc = "failed" /\ r.err \in {SignatureError, ArgTypeError})
          /\ (CorrectlySigned(r) /\ Defective(r.payload)) =>
               (r.pc = "failed" /\ r.err \in {StructureError, JsonSyntaxError})

\* A correctly signed subscription.trialing event delivered to an empty
\* registry ran through both awaits of its case and completed.
C18_Witness ==
  \E c \in Calls :
    /\ calls[c].handlers = {}
    /\ CorrectlySigned(calls[c])
    /\ TypeOfCall(calls[c]) = "subscription.trialing"
    /\ calls[c].pc = "done"
    /\ calls[c].trace = <<>>

(***************************************************************************)
(* C19. Nothing is kept between calls: when a delivery has finished,       *)
(* completed or failed, a delivery of the same payload and signature to    *)
(* the same registry is verified, parsed and dispatched again and invokes  *)
(* the row's handlers from the first one on; after a first delivery in     *)
(* which the specific handler failed, the redelivery invokes the           *)
(* access-control handler again, and the specific handler only after it.   *)
(***************************************************************************)
C19_NoDeduplication ==
  \A c, d \in Calls :
    (/\ c # d
     /\ calls[c].pc \in {"done", "failed"}
     /\ Dispatched(calls[c])
     /\ calls[d].pc # "idle"
     /\ calls[d].payload = calls[c].payload
     /\ calls[d].signature = calls[c].signature
     /\ calls[d].handlers = calls[c].handlers)
    => LET r == calls[d]
           row == Restrict(TableRow(TypeOfCall(r)), r.handlers)
       IN  /\ Dispatched(r)
           /\ r.event = calls[c].event
           /\ IsPrefix(Invoked(r), row)
           /\ TableRow(TypeOfCall(r))[1] \in r.handlers =>
                (Invoked(r) # <<>> /\ Invoked(r)[1] = TableRow(TypeOfCall(r))[1])
           /\ r.pc = "done" => Invoked(r) = row

\* The first delivery of a subscription.active event failed in
\* onSubscriptionActive after onGrantAccess completed; the redelivery invoked
\* onGrantAccess again, then onSubscriptionActive, and completed.
C19_Witness ==
  \E c, d \in Calls :
    /\ c # d
    /\ calls[c].pc = "failed"
    /\ calls[c].trace = <<Ev("begin", "onGrantAccess"), Ev("end", "onGrantAccess"),
                          Ev("begin", "onSubscriptionActive"),
                          Ev("fail", "onSubscriptionActive")>>
    /\ calls[d].payload = calls[c].payload
    /\ calls[d].signature = calls[c].signature
    /\ calls[d].handlers = calls[c].handlers
    /\ calls[d].pc = "done"
    /\ calls[d].trace = <<Ev("begin", "onGrantAccess"), Ev("end", "onGrantAccess"),
                          Ev("begin", "onSubscriptionActive"),
                          Ev("end", "onSubscriptionActive")>>

(***************************************************************************)
(* C20. Dispatch is deterministic and history-free. Two calls under the    *)
(* same secret with the same payload, signature and registry, whatever     *)
(* calls came before them, agree on verification, parsing and the          *)
(* normalized object; the handlers one has invoked, with their arguments,  *)
(* are an initial part of the other's, and the same list when both         *)
(* completed; a failure before dispatch is the same failure in both; and   *)
(* when their handlers did the same, so that both calls have ended with    *)
(* the same trace, they have the same outcome. The list of handlers        *)
(* depends on the envelope through its eventType only: two dispatched      *)
(* calls with the same registry and eventType, whatever else their         *)
(* envelopes hold, invoke initial parts of one list, the same list when    *)
(* both completed.                                                         *)
(***************************************************************************)
Comparable(s, t) == IsPrefix(s, t) \/ IsPrefix(t, s)

C20_DeterministicDispatch ==
  \A c, d \in Calls :
    LET r == calls[c]
        q == calls[d]
    IN  (c # d /\ r.pc # "idle" /\ q.pc # "idle" /\ r.handlers = q.handlers) =>
          /\ (r.payload = q.payload /\ r.signature = q.signature) =>
               /\ r.verified = q.verified
               /\ r.parsed = q.parsed
               /\ r.event = q.event
               /\ r.normalized = q.normalized
               /\ Comparable(Invoked(r), Invoked(q))
               /\ Comparable(r.args, q.args)
               /\ (r.pc = "done" /\ q.pc = "done") =>
                    (Invoked(r) = Invoked(q) /\ r.args = q.args)
               /\ (r.pc = "failed" /\ r.err \in PreDispatchErrors) =>
                    (q.pc = "failed" /\ q.err = r.err)
               /\ (r.pc \in {"done", "failed"} /\ q.pc \in {"done", "failed"}
                   /\ r.trace = q.trace) =>
                    (r.pc = q.pc /\ r.err = q.err)
          /\ (Dispatched(r) /\ Dispatched(q)
              /\ Get(r.event, "eventType") = Get(q.event, "eventType")) =>
               /\ Comparable(Invoked(r), Invoked(q))
               /\ (r.pc = "done" /\ q.pc = "done") => Invoked(r) = Invoked(q)

\* Two subscription.active events, one carrying a subscription and one a
\* checkout, delivered to the full registry, both completed after invoking
\* onGrantAccess and onSubscriptionActive.
C20_Witness ==
  \E c, d \in Calls :
    /\ calls[c].pc = "done"
    /\ calls[d].pc = "done"
    /\ calls[c].handlers = Handlers
    /\ calls[d].handlers = Handlers
    /\ Get(calls[c].event, "object") = SubscriptionObject
    /\ Get(calls[d].event, "object") = Entity("checkout")
    /\ Invoked(calls[c]) = <<"onGrantAccess", "onSubscriptionActive">>
    /\ Invoked(calls[d]) = Invoked(calls[c])

(***************************************************************************)
(* C21. Concurrent handleEvents calls are not synchronized: whenever one   *)
(* call is suspended on its pending access-control handler, its specific   *)
(* handler not yet begun, and the other call has not started, the other    *)
(* call can start with the same event and begin a handler of its own.      *)
(***************************************************************************)
\* The call has begun the access-control handler of a pre-step event, which
\* is still pending, and not yet its specific handler.
BetweenSteps(r) ==
  /\ r.pc = "await"
  /\ r.awaiting = "pending"
  /\ TypeOfCall(r) \in PreStepTypes
  /\ Invoked(r) = <<TableRow(TypeOfCall(r))[1]>>

C21_NotSynchronized ==
  \A c, d \in Calls :
    (c # d /\ BetweenSteps(calls[c]) /\ calls[d].pc = "idle") =>
      ENABLED (/\ Call(d, {calls[c].payload}, {"digest"}, {Handlers})
               /\ Begun(calls'[d]) # <<>>)

\* onGrantAccess of the first call is still pending, its onSubscriptionActive
\* not begun, and the second call, given the same event, has begun its own
\* onGrantAccess.
C21_Witness ==
  \E c, d \in Calls :
    /\ c # d
    /\ TypeOfCall(calls[c]) = "subscription.active"
    /\ calls[c].trace = <<Ev("begin", "onGrantAccess")>>
    /\ calls[c].awaiting = "pending"
    /\ "onSubscriptionActive" \in calls[c].handlers
    /\ calls[d].payload = calls[c].payload
    /\ calls[d].trace = <<Ev("begin", "onGrantAccess")>>
    /\ calls[d].pc = "await"

(***************************************************************************)
(* C22. handleEvents imposes no timeout and no cancellation. If every      *)
(* handler the call invokes terminates (each pending handler promise       *)
(* settles), a call that has reached an await ends, completed or failed.   *)
(* While an invoked handler is pending, the only step of the call is that  *)
(* handler settling: the call does not return, does not fail and does not  *)
(* invoke the following handler of the row.                                *)
(***************************************************************************)
C22_NoTimeout ==
  /\ WF_vars(Settle(1)) =>
       (calls[1].pc = "await" ~> calls[1].pc \in {"done", "failed"})
  /\ [][\A c \in Calls :
          (calls[c].pc = "await" /\ calls[c].awaiting = "pending"
           /\ calls'[c] # calls[c])
          => \E res \in {"fulfilled", "rejected"} :
               calls'[c] = HandlerSettles(calls[c], res)]_vars

\* onRevokeAccess was invoked for subscription.paused and has not completed:
\* the call is suspended with onSubscriptionPaused registered and not invoked.
C22_Witness ==
  \E c \in Calls :
    /\ calls[c].pc = "await"
    /\ calls[c].awaiting = "pending"
    /\ TypeOfCall(calls[c]) = "subscription.paused"
    /\ calls[c].handlers = Handlers
    /\ calls[c].trace = <<Ev("begin", "onRevokeAccess")>>

(***************************************************************************)
(* C23. handleEvents leaves the handler registry, the configured secret    *)
(* and the raw payload as the caller supplied them, in every outcome: no   *)
(* step changes the secret; what a call holds when it starts is a payload, *)
(* its signature header and a registry of the inputs; and from then until  *)
(* the caller has seen the outcome no step of the call changes them.       *)
(***************************************************************************)
C23_Frame ==
  [][/\ secret' = secret
     /\ \A c \in Calls :
          /\ (calls[c].pc = "idle" /\ calls'[c].pc # "idle") =>
               /\ calls'[c].payload \in EnvelopePayloads
               /\ calls'[c].handlers \in ConcRegistries
               /\ \E k \in ConcSignatureKinds :
                    calls'[c].signature = SignatureOf(k, calls'[c].payload)
          /\ (calls[c].pc # "idle" /\ calls'[c].pc # "idle") =>
               /\ calls'[c].payload = calls[c].payload
               /\ calls'[c].signature = calls[c].signature
               /\ calls'[c].handlers = calls[c].handlers]_vars

\* A call that failed with the error of its second handler, the first having
\* completed: it still holds the full registry.
C23_Witness ==
  \E c \in Calls :
    /\ calls[c].pc = "failed"
    /\ calls[c].err = HandlerError("onSubscriptionActive")
    /\ calls[c].handlers = Handlers
    /\ Invoked(calls[c]) = <<"onGrantAccess", "onSubscriptionActive">>
    /\ secret = JStr(SecretKey)

(***************************************************************************)
(* C30. A handleEvents call invokes at most two handlers and none of them  *)
(* twice. It invokes two only for the five event types with a pre-step,    *)
(* and then an access-control handler first and a specific handler second. *)
(***************************************************************************)
C30_AtMostTwoHandlers ==
  \A c \in Calls :
    LET inv == Invoked(calls[c])
    IN  /\ Len(inv) <= 2
        /\ \A i, j \in 1..Len(inv) : inv[i] = inv[j] => i = j
        /\ Len(inv) = 2 =>
             /\ TypeOfCall(calls[c]) \in PreStepTypes
             /\ inv[1] \in AccessHandlers
             /\ inv[2] \in Handlers \ AccessHandlers

\* A completed subscription.expired call that invoked onRevokeAccess and then
\* onSubscriptionExpired.
C30_Witness ==
  \E c \in Calls :
    /\ calls[c].pc = "done"
    /\ TypeOfCall(calls[c]) = "subscription.expired"
    /\ Invoked(calls[c]) = <<"onRevokeAccess", "onSubscriptionExpired">>

(***************************************************************************)
(* What the properties below read off a decoded value.                     *)
(***************************************************************************)
IsContainer(x) == x.t \in {"object", "array"}

\* y has the nesting of x: arrays of the same length with elements of the same
\* shape in the same order, mappings of the same number of keys with each key
\* of x found under its converted name, a scalar where x has a scalar.
RECURSIVE SameShape(_, _)
SameShape(x, y) ==
  IF x.t = "array"
    THEN /\ y.t = "array"
         /\ Len(y.v) = Len(x.v)
         /\ \A i \in 1..Len(x.v) : SameShape(x.v[i], y.v[i])
  ELSE IF x.t = "object"
    THEN /\ y.t = "object"
         /\ Cardinality(DOMAIN y.v) = Cardinality(DOMAIN x.v)
         /\ \A k \in DOMAIN x.v :
              CamelKey(k) \in DOMAIN y.v /\ SameShape(x.v[k], y.v[CamelKey(k)])
  ELSE ~IsContainer(y)

\* The scalars of a value, each with its position: the keys (converted, if
\* ren) and array indices on the way to it.
IndexKey(i) == <<"[1]", "[2]", "[3]", "[4]">>[i]

RECURSIVE Leaves(_, _)
Leaves(x, ren) ==
  IF x.t = "array"
    THEN UNION {{<<<<IndexKey(i)>> \o l[1], l[2]>> : l \in Leaves(x.v[i], ren)} :
                  i \in 1..Len(x.v)}
  ELSE IF x.t = "object"
    THEN UNION {{<<<<IF ren THEN CamelKey(k) ELSE k>> \o l[1], l[2]>> : l \in Leaves(x.v[k], ren)} :
                  k \in DOMAIN x.v}
  ELSE {<<<<>>, x>>}

\* Some mapping inside x holds two keys that convert to the same key.
RECURSIVE HasCollision(_)
HasCollision(x) ==
  IF x.t = "array" THEN \E i \in 1..Len(x.v) : HasCollision(x.v[i])
  ELSE IF x.t = "object"
    THEN \/ \E k, l \in DOMAIN x.v : k # l /\ CamelKey(k) = CamelKey(l)
         \/ \E k \in DOMAIN x.v : HasCollision(x.v[k])
  ELSE FALSE

(***************************************************************************)
(* C24. normalize is idempotent: normalizing the result of a normalization *)
(* gives that result again, for every decoded value (nested mappings,      *)
(* arrays, scalars).                                                       *)
(***************************************************************************)
C24_Idempotent == norm.stage = "twice" => norm.again = norm.out

\* A normalization that renamed a key two levels down, applied again.
C24_Witness ==
  /\ norm.stage = "twice"
  /\ norm.arg = JObj([items |-> JArr(<<JObj([product_id |->
                                              JObj([created_at |-> JNum(1)])])>>)])
  /\ norm.out = JObj([items |-> JArr(<<JObj([productId |->
                                              JObj([createdAt |-> JNum(1)])])>>)])

(***************************************************************************)
(* C25. normalize never changes the number of keys of a mapping nor the    *)
(* shape of nested containers, for every input, a mapping that holds both  *)
(* a wire-convention key and the public-convention key it converts to      *)
(* included.                                                               *)
(***************************************************************************)
C25_ShapeKept == norm.stage # "none" => SameShape(norm.arg, norm.out)

(***************************************************************************)
(* C26. normalize renames keys only: every scalar of the input is found    *)
(* unchanged at the corresponding position of the output (the same indices *)
(* and the converted keys on the way to it).                               *)
(***************************************************************************)
C26_ScalarsKept ==
  norm.stage # "none" => Leaves(norm.arg, TRUE) \subseteq Leaves(norm.out, FALSE)

(***************************************************************************)
(* C27. The request function is retry-free: a call has issued exactly one  *)
(* fetch from its start to its end, whether it ends with a successful      *)
(* response, with a response of a non-success status or with the failure   *)
(* of the fetch itself.                                                    *)
(***************************************************************************)
C27_OneFetch == (req.pc = "idle" /\ req.fetches = 0) \/ (req.pc # "idle" /\ req.fetches = 1)

\* The fetch of a call was rejected and the call has failed with that error.
C27_Witness == req.pc = "failed" /\ req.err = FetchError /\ req.fetches = 1

(***************************************************************************)
(* C28. A successful response is returned converted to camelCase: for an   *)
(* ok response other than 204 with a body that decodes, the call returns   *)
(* the conversion of the decoded body; for 204 it returns an empty object  *)
(* and has not read the body.                                              *)
(***************************************************************************)
C28_CamelCaseResponse ==
  (req.pc \in {"done", "failed"} /\ ResponseOk(req.response)) =>
    IF req.response.status = 204
      THEN req.pc = "done" /\ req.result = JObj(<<>>) /\ req.reads = 0
    ELSE req.response.body.json =>
           /\ req.pc = "done"
           /\ req.result = toCamelCase(req.response.body.value)
           /\ SameShape(req.response.body.value, req.result)
           /\ \A l \in Leaves(req.result, FALSE) :
                \A i \in 1..Len(l[1]) : l[1][i] \notin {"product_id", "created_at"}

\* A 201 whose body holds product_id and created_at, returned with productId
\* and createdAt.
C28_Witness ==
  /\ req.pc = "done"
  /\ req.response.status = 201
  /\ req.response.body.value =
       JObj([id |-> JStr("sub_1"), product_id |-> JStr("prod_1"), created_at |-> JNum(1)])
  /\ req.result =
       JObj([id |-> JStr("sub_1"), productId |-> JStr("prod_1"), createdAt |-> JNum(1)])

(***************************************************************************)
(* C29. Signature verification takes time independent of where the first   *)
(* differing byte is, for inputs of equal length: it compares every pair   *)
(* of bytes, whether the signature is the digest or differs from it at any *)
(* position. It returns false without comparing a byte only when the       *)
(* lengths differ.                                                         *)
(***************************************************************************)
C29_TimingSafe ==
  probe.result \in {"true", "false"} =>
    LET given == BufferFrom(probe.signature.v)
        expected == BufferFrom(generateSignature(probe.payload, probe.secret))
    IN  IF Len(given) = Len(expected) THEN probe.reads = Len(expected)
        ELSE probe.reads = 0 /\ probe.result = "false"

\* A signature of the digest's length that differs from it in its first byte:
\* rejected after all bytes were compared.
C29_Witness ==
  LET d == generateSignature(probe.payload, probe.secret)
  IN  /\ probe.result = "false"
      /\ probe.signature.t = "string"
      /\ Len(probe.signature.v) = Len(d)
      /\ probe.signature.v[1] # d[1]
      /\ \A i \in 2..Len(d) : probe.signature.v[i] = d[i]
      /\ probe.reads = Len(d)

(***************************************************************************)
(* C31. A correctly signed event of an unrecognized eventType whose        *)
(* embedded object has a type discriminator outside the closed entity set  *)
(* is not tolerated as an unknown event: the call fails with "Invalid      *)
(* webhook event structure" and no handler is invoked.                     *)
(***************************************************************************)
\* An envelope right in every field but the discriminator of its object, which
\* is a string outside the entity set.
ForeignEntity(v) ==
  /\ Get(v, "id").t = "string"
  /\ Get(v, "eventType").t = "string"
  /\ Get(v, "created_at").t = "number"
  /\ Get(v, "object").t = "object"
  /\ Get(Get(v, "object"), "object").t = "string"
  /\ Get(Get(v, "object"), "object").v \notin EntityTypes

C31_UnknownEntityRejected ==
  \A c \in Calls :
    LET r == calls[c]
    IN  (/\ CorrectlySigned(r)
         /\ ~NotDecodable(r.payload)
         /\ ForeignEntity(r.payload.value)
         /\ Get(r.payload.value, "eventType").v \notin EventTypes)
        => /\ r.pc = "failed"
           /\ r.err = StructureError
           /\ r.event = Undefined
           /\ r.trace = <<>>

\* A correctly signed future.event that carries an invoice, rejected.
C31_Witness ==
  \E c \in Calls :
    /\ CorrectlySigned(calls[c])
    /\ calls[c].payload.value = Envelope("future.event", Entity("invoice"))
    /\ calls[c].handlers = Handlers
    /\ calls[c].err = StructureError

(***************************************************************************)
(* C32. Routing uses the eventType alone: a correctly signed envelope      *)
(* whose object has any type of the closed set is accepted whatever its    *)
(* eventType, and its handlers are those of the eventType's row. So a      *)
(* subscription.active event that carries a checkout is passed to          *)
(* onGrantAccess and onSubscriptionActive, the checkout's fields in the    *)
(* argument.                                                               *)
(***************************************************************************)
C32_RoutedByEventTypeAlone ==
  \A c \in Calls :
    LET r == calls[c]
        et == Get(r.payload.value, "eventType").v
        obj == Get(r.payload.value, "object")
    IN  (CorrectlySigned(r) /\ ~Defective(r.payload) /\ et \in EventTypes) =>
          /\ r.err \notin PreDispatchErrors
          /\ r.event = r.payload.value
          /\ IsPrefix(Invoked(r), Restrict(TableRow(et), r.handlers))
          /\ r.pc = "done" => Invoked(r) = Restrict(TableRow(et), r.handlers)
          /\ \A i \in 1..Len(r.args) : Get(r.args[i], "object") = Get(obj, "object")

\* A subscription.active event that carries a checkout, completed after
\* onGrantAccess and onSubscriptionActive were each given the checkout.
C32_Witness ==
  \E c \in Calls :
    /\ calls[c].pc = "done"
    /\ calls[c].payload.value = Envelope("subscription.active", Entity("checkout"))
    /\ Invoked(calls[c]) = <<"onGrantAccess", "onSubscriptionActive">>
    /\ Len(calls[c].args) = 2
    /\ Get(calls[c].args[1], "object") = JStr("checkout")
    /\ Get(calls[c].args[2], "object") = JStr("checkout")

(***************************************************************************)
(* C33. handleEvents gives the same outcome for a payload passed as text   *)
(* and for the same payload passed as the bytes of its UTF-8 encoding      *)
(* (verification result, error, handler invocations and arguments); and    *)
(* for a payload passed as bytes the signature is accepted exactly when it *)
(* is the HMAC of the received bytes as they were received.                *)
(***************************************************************************)
C33_BinaryPayload ==
  /\ \A c, d \in Calls :
       LET r == calls[c]
           q == calls[d]
       IN  (/\ r.pc # "idle" /\ q.pc # "idle"
            /\ ~IsBuffer(r.payload) /\ IsBuffer(q.payload)
            /\ q.payload.bytes = BufferFrom(r.payload.text)
            /\ r.signature = q.signature /\ r.handlers = q.handlers) =>
             /\ r.verified = q.verified
             /\ r.event = q.event
             /\ r.normalized = q.normalized
             /\ Comparable(Invoked(r), Invoked(q))
             /\ Comparable(r.args, q.args)
             /\ (r.pc = "done" /\ q.pc = "done") =>
                  (Invoked(r) = Invoked(q) /\ r.args = q.args)
             /\ (r.pc = "failed" /\ r.err \in PreDispatchErrors) =>
                  (q.pc = "failed" /\ q.err = r.err)
  /\ \A c \in Calls :
       LET r == calls[c]
       IN  (r.pc # "idle" /\ Truthy(secret) /\ IsBuffer(r.payload)) =>
             (r.verified = "true"
                <=> r.signature = JStr(hmacOfBytes(r.payload.bytes, secret.v)))

(***************************************************************************)
(* C34. The signature comparison is exact on the encoded text: only the    *)
(* lowercase hex digest is accepted. The digest written with capital hex   *)
(* digits and the digest with white space around it are rejected.          *)
(***************************************************************************)
C34_ExactComparison ==
  probe.result # "unset" =>
    LET d == generateSignature(probe.payload, probe.secret)
    IN  /\ probe.result = "true" <=> probe.signature = JStr(d)
        /\ (/\ probe.signature.t = "string"
            /\ probe.signature.v # d
            /\ LowerHex(Trim(probe.signature.v)) = d) => probe.result = "false"

\* The digest in capitals, which differs from the digest, was rejected.
C34_Witness ==
  LET d == generateSignature(probe.payload, probe.secret)
  IN  /\ probe.result = "false"
      /\ UpperHex(d) # d
      /\ probe.signature = JStr(UpperHex(d))

(***************************************************************************)
(* C35. For every response of a non-success status the request function    *)
(* fails and returns no value. The message of the error is the message     *)
(* field of the response body when the body is JSON that holds a non-empty *)
(* message, and the status text of the response otherwise, also when the   *)
(* body is no JSON.                                                        *)
(***************************************************************************)
C35_ErrorOfResponse ==
  (req.response # NoResponse /\ ~ResponseOk(req.response)) =>
    /\ req.pc \in {"errorBody", "failed"}
    /\ req.result = Undefined
    /\ req.pc = "failed" =>
         LET body == req.response.body
             m == Get(body.value, "message")
         IN  /\ req.err.name = "Error"
             /\ req.err.message =
                  IF body.json /\ m.t = "string" /\ m.v # "" THEN m.v
                  ELSE IF body.json /\ m.t = "number" /\ m.v # 0 THEN ToString(m.v)
                  ELSE req.response.statusText

\* A 404 whose body is {"message": "Subscription not found"}: the call failed
\* with that message and not with Not Found.
C35_Witness ==
  /\ req.pc = "failed"
  /\ req.response.status = 404
  /\ req.response.statusText = "Not Found"
  /\ req.response.body.value = JObj([message |-> JStr("Subscription not found")])
  /\ req.err = [name |-> "Error", message |-> "Subscription not found"]

(***************************************************************************)
(* What the properties below read off a call of a subscriptions operation. *)
(***************************************************************************)
Absent(v) == v.t \in {"undefined", "null"}

OwnMethod(op) == IF op = "get" THEN "GET" ELSE "POST"
OwnPath(op, id) ==
  CASE op = "get" -> <<"/v1/subscriptions">>
    [] op = "cancel" -> <<"/v1/subscriptions/", id, "/cancel">>
    [] op = "update" -> <<"/v1/subscriptions/", id>>
    [] OTHER -> <<"/v1/subscriptions/", id, "/upgrade">>

\* No request was issued and the operation has failed.
NoRequestIssued == req.pc = "failed" /\ req.fetches = 0 /\ req.response = NoResponse

\* One request was issued, to the operation's method and path (for get, with
\* the subscription as the query parameter subscription_id).
OneRequestIssued ==
  LET id == Get(req.params, "subscriptionId")
  IN  /\ req.fetches = 1
      /\ req.method = OwnMethod(req.op)
      /\ req.path = OwnPath(req.op, id.v)
      /\ req.op = "get" => req.query = [subscription_id |-> id]

\* A parameter the operation reads besides subscriptionId (and upgrade's
\* productId) is given with another type than the one it is declared with.
OtherParameterIllTyped ==
  LET mode == Get(req.params, "mode")
      updateBehavior == Get(req.params, "updateBehavior")
      items == Get(req.params, "items")
      productId == Get(req.params, "productId")
  IN  \/ req.op = "cancel" /\ ~Absent(mode) /\ mode.t # "string"
      \/ req.op \in {"update", "upgrade"} /\ ~Absent(updateBehavior)
           /\ updateBehavior.t # "string"
      \/ req.op = "update" /\ ~Absent(items) /\ items.t # "array"
      \/ req.op = "upgrade" /\ ~Absent(productId) /\ productId.t # "string"

\* What the claim names: subscriptionId missing or no string, or upgrade's
\* productId missing.
NamedParameterInvalid ==
  \/ Get(req.params, "subscriptionId").t # "string"
  \/ req.op = "upgrade" /\ Absent(Get(req.params, "productId"))

====
